---- MODULE Spec2Model ----
(***************************************************************************)
(* Model of Devopsandcloudautomation/devopsEx31/capstoneCICD.py: the local *)
(* CI pipeline (build, run, test, push, cleanup), the remote CD pipeline   *)
(* (pull, stop, run, logs, cleanup) and the Orchestrator that sequences    *)
(* them, together with the parts of the container engine, the registry     *)
(* and the remote shell that the pipelines observe.                        *)
(*                                                                         *)
(* Python strings that the code builds with f-strings and takes apart with *)
(* split(":") are modelled as sequences of tokens, so that concatenation   *)
(* is \o and split is a real scan for the ":" token.                       *)
(***************************************************************************)
EXTENDS Integers, Sequences, FiniteSets, TLC

VARIABLES
    pc,              \* position of the single (synchronous) thread of control
    runs,            \* number of Orchestrator.execute() calls started so far
    args,            \* arguments of the Orchestrator.execute() call in progress, each kept until its last use
    outcome,         \* how the last Orchestrator.execute() ended: "none", "returned", "raised"
    trace,           \* calls made so far by the pipeline execute() in progress, in order
    pushFrames,      \* response streams of the engine pushes of the Push step that has just returned
    imageStore,      \* local image store of the engine: set of [ref, id]
    containers,      \* local containers of the engine: set of [id, status, exit]
    ciStatus,        \* CIPipeLine.__status
    ciImage,         \* CIPipeLine.__image: [id, tags0]; id = NoImage is None
    ciRunner,        \* CIPipeLine.__runner: NoRunner, or the runner's __container
    ciTest,          \* CIPipeLine.__adhoc_test is set
    ciRegistry,      \* CIPipeLine.__docker_registry_client is set
    ciRet,           \* ci_result of the Orchestrator.execute() in progress or just ended: "None", "True", "False"
    pushedImage,     \* DockerRegistryClient.__pushed_image (<<>> is None)
    cdPresent,       \* Orchestrator.cd_pipeline is not None
    cdStatus,        \* CDPipeline.__status
    cdLoopStatus,    \* CDPipeline.__status as the Pull/Stop/Run loop of the last execute() left it
    cdImage,         \* CDPipeline.__image_to_deploy (<<>> is None)
    cdRet,           \* value returned by the last CDPipeline.execute(): "None", "True", "False"
    deployerPulled,  \* RemoteDockerDeployer.__pulled_image (<<>> is None)
    remoteContainer, \* image of the container named __existing_container on the remote host (<<>>: none)
    sshConnected,    \* SSHClientManager.__connected
    sshClient,       \* SSHClientManager.__client: "None", "open" (transport up), "dead" (no transport)
    logCmds,         \* "docker logs" commands issued by the fetch_logs in progress or just ended
    orchStatus       \* Orchestrator.status: [CI, CD], each "None", "True", "False" or "Skipped"

vars == <<pc, runs, args, outcome, trace, pushFrames, imageStore, containers, ciStatus, ciImage, ciRunner, ciTest, ciRegistry, ciRet,
          pushedImage, cdPresent, cdStatus, cdLoopStatus, cdImage, cdRet,
          deployerPulled, remoteContainer, sshConnected, sshClient, logCmds,
          orchStatus>>

engineVars == <<imageStore, containers>>
ciVars     == <<ciStatus, ciImage, ciRunner, ciTest, ciRegistry, ciRet>>
cdVars     == <<cdPresent, cdStatus, cdLoopStatus, cdImage, cdRet, deployerPulled>>
sshVars    == <<sshConnected, sshClient>>

-----------------------------------------------------------------------------
(* Bounds of the model *)

\* Orchestrator.execute() calls made on the same orchestrator
MaxRuns == 2

\* calls made on one SSHClientManager, or on one RemoteDockerDeployer
MaxCalls == 5

\* largest max_retries given to fetch_logs
MaxRetriesArg == 5

\* the longest text file read by get_file_content, in characters
MaxFileLen == 3

\* frames in one registry push response stream
MaxFrames == 2

-----------------------------------------------------------------------------
(* Values *)

NoImage == 0
NoContainer == 0
NoRunner == -1

\* str(bool) as Python prints it; the statuses of the orchestrator mix booleans,
\* None and "Skipped", so they are kept as their printed form
PyStr(b) == IF b THEN "True" ELSE "False"

\* the defaults of Orchestrator.execute's parameters; `args` holds them while no call is in progress
DefaultArgs ==
    [run_ci |-> TRUE, run_cd |-> TRUE, skip_tests |-> FALSE, push |-> FALSE,
     push_latest |-> FALSE]

\* the arguments still to be read when control is at `p`, the others back at their
\* defaults: run_ci and skip_tests are read on entry, push and push_latest by the
\* Push step, run_cd at the start of the CD phase
LiveArgs(a, p) ==
    IF p \in {"ci_build", "ci_run", "ci_test", "ci_push"}
    THEN [a EXCEPT !.run_ci = DefaultArgs.run_ci, !.skip_tests = DefaultArgs.skip_tests]
    ELSE IF p \in {"ci_stop", "ci_remove", "ci_finish", "orch_after_ci", "orch_cd"}
    THEN [DefaultArgs EXCEPT !.run_cd = a.run_cd]
    ELSE DefaultArgs

\* configuration of the run in __main__ and the environment
ImageName == <<"app">>
ImageTag == <<"v1">>
Namespace == <<"ns">>
RegistryUrl == <<"docker.io">>
ContainerName == <<"test-app-container">>

\* one call of the trace
Call(ev, ok, arg) == [ev |-> ev, ok |-> ok, arg |-> arg]

\* the events of `t` that are among `evs`, in order
RECURSIVE Only(_, _)
Only(t, evs) ==
    IF t = <<>> THEN <<>>
    ELSE IF Head(t).ev \in evs THEN <<Head(t)>> \o Only(Tail(t), evs)
         ELSE Only(Tail(t), evs)

Count(t, ev) == Len(Only(t, {ev}))

\* position of the first / last call of `ev` in `t` (0 when there is none)
FirstPos(t, ev) ==
    IF \E i \in 1..Len(t) : t[i].ev = ev
    THEN CHOOSE i \in 1..Len(t) : t[i].ev = ev /\ \A j \in 1..(i-1) : t[j].ev # ev
    ELSE 0

LastPos(t, evs) ==
    IF \E i \in 1..Len(t) : t[i].ev \in evs
    THEN CHOOSE i \in 1..Len(t) : t[i].ev \in evs /\ \A j \in (i+1)..Len(t) : t[j].ev \notin evs
    ELSE 0

-----------------------------------------------------------------------------
(* Python string operations on token sequences *)

\* s.split(":"): the list of the pieces of s between ":" tokens
RECURSIVE SplitColon(_)
SplitColon(s) ==
    IF \A i \in 1..Len(s) : s[i] # ":" THEN <<s>>
    ELSE LET k == CHOOSE i \in 1..Len(s) : s[i] = ":" /\ \A j \in 1..(i-1) : s[j] # ":"
         IN  <<SubSeq(s, 1, k-1)>> \o SplitColon(SubSeq(s, k+1, Len(s)))

-----------------------------------------------------------------------------
(* The container engine: local image store *)

\* images.get(ref): the id the reference resolves to, NoImage when it raises ImageNotFound
Resolve(store, ref) ==
    IF \E e \in store : e.ref = ref
    THEN (CHOOSE e \in store : e.ref = ref).id
    ELSE NoImage

\* image.tag(ref) / build(tag=ref): the reference now names image `id` (and no other)
EngineTag(store, id, ref) ==
    {e \in store : e.ref # ref} \cup {[ref |-> ref, id |-> id]}

\* images.remove(image=ref, force=True): by reference, the engine removes that
\* reference; the image goes with it only when it was its last reference
EngineRemoveRef(store, ref) == {e \in store : e.ref # ref}

\* the id the engine gives to a new image: ids are opaque and only compared for
\* equality, so the least id that names no image of the store stands for a fresh one
FreshImageId(store) ==
    CHOOSE n \in 1..(Cardinality(store) + 1) :
        /\ \A e \in store : e.id # n
        /\ \A m \in 1..(n-1) : \E e \in store : e.id = m

ImagePresent(store, id) == \E e \in store : e.id = id

RefsOf(store, id) == {e.ref : e \in {x \in store : x.id = id}}

-----------------------------------------------------------------------------
(* DockerImageBuilder *)

\* get_name_with_tag, and the f-strings of image_exists, rename_on_failure, build_image
NameWithTag == ImageName \o <<":">> \o ImageTag

FailedTag == ImageTag \o <<"-failed">>

FailedNameWithTag == ImageName \o <<":">> \o FailedTag

image_exists(store) == Resolve(store, NameWithTag) # NoImage

\* rename_on_failure: images.get(name:tag) raises when the image is absent (the
\* store is left alone, False is returned); otherwise the image is given the
\* additional reference name:tag-failed
rename_on_failure(store) ==
    IF Resolve(store, NameWithTag) = NoImage
    THEN [ok |-> FALSE, store |-> store]
    ELSE [ok |-> TRUE,
          store |-> EngineTag(store, Resolve(store, NameWithTag), FailedNameWithTag)]

\* build_image: the engine's build either produces a new image tagged name:tag
\* or raises (None is returned)
build_image(store, id, engineOk) ==
    IF engineOk
    THEN [image |-> [id |-> id, tags0 |-> NameWithTag],
          store |-> EngineTag(store, id, NameWithTag)]
    ELSE [image |-> [id |-> NoImage, tags0 |-> <<>>], store |-> store]

-----------------------------------------------------------------------------
(* DockerContainerRunner *)

\* the id the engine gives to a new container (opaque, as for images)
FreshContainerId(cs) ==
    CHOOSE n \in 1..(Cardinality(cs) + 1) :
        /\ \A c \in cs : c.id # n
        /\ \A m \in 1..(n-1) : \E c \in cs : c.id = m

ContainerOf(cs, id) == CHOOSE c \in cs : c.id = id

ContainerExists(cs, id) == \E c \in cs : c.id = id

\* start_container: what containers.run, the 3 s settle delay and reload() leave:
\* "running", "exited0", "exited1"; "error" when containers.run raises before it
\* has created a container (no such image), "created" when it raises after it
\* has created one (the engine cannot start the image's command)
StartOutcomes == {"running", "exited0", "exited1", "error", "created"}

\* StartVerdict taking a running container for a failure
StartVerdict_RunningFails(status, exit_code) == status = "exited" /\ exit_code = 0

\* what start_container returns for the status and exit code read after reload()
StartVerdict(status, exit_code) ==
    IF status = "exited" THEN exit_code = 0 ELSE TRUE

start_container(cs, id, o) ==
    IF o = "error"
    THEN [ok |-> FALSE, container |-> NoContainer, containers |-> cs]
    ELSE IF o = "created"
    THEN [ok |-> FALSE, container |-> NoContainer,
          containers |-> cs \cup {[id |-> id, status |-> "created", exit |-> 0]}]
    ELSE LET c == [id |-> id,
                   status |-> IF o = "running" THEN "running" ELSE "exited",
                   exit |-> IF o = "exited1" THEN 1 ELSE 0]
         IN  [ok |-> StartVerdict(c.status, c.exit),
              container |-> id,
              containers |-> cs \cup {c}]

\* StopIssued / RemoveIssued without the test of the status
StopIssued_Always(status) == TRUE

RemoveIssued_Always(status) == TRUE

\* the tests stop_container and remove_container make on the status read by reload()
StopIssued(status) == status = "running"

RemoveIssued(status) == status = "exited"

\* stop_container: engineStop tells whether the engine's stop was issued
stop_container(cs, id) ==
    IF id = NoContainer
    THEN [ok |-> FALSE, engineStop |-> FALSE, containers |-> cs]
    ELSE IF ~ContainerExists(cs, id)                      \* reload() raises NotFound
    THEN [ok |-> FALSE, engineStop |-> FALSE, containers |-> cs]
    ELSE IF StopIssued(ContainerOf(cs, id).status)
    THEN [ok |-> TRUE, engineStop |-> TRUE,
          containers |-> (cs \ {ContainerOf(cs, id)})
                         \cup {[ContainerOf(cs, id) EXCEPT !.status = "exited", !.exit = 137]}]
    ELSE [ok |-> TRUE, engineStop |-> FALSE, containers |-> cs]

\* remove_container: engineRemove tells whether the engine's remove was issued
remove_container(cs, id) ==
    IF id = NoContainer
    THEN [ok |-> FALSE, engineRemove |-> FALSE, containers |-> cs]
    ELSE IF ~ContainerExists(cs, id)                      \* reload() raises NotFound
    THEN [ok |-> FALSE, engineRemove |-> FALSE, containers |-> cs]
    ELSE IF RemoveIssued(ContainerOf(cs, id).status)
    THEN [ok |-> TRUE, engineRemove |-> TRUE, containers |-> cs \ {ContainerOf(cs, id)}]
    ELSE [ok |-> FALSE, engineRemove |-> FALSE, containers |-> cs]

-----------------------------------------------------------------------------
(* DockerRegistryClient *)

\* a push response stream: each frame is named by the key it carries, "status" or "error"
Frames == {"status", "error"}

Streams == UNION {[1..n -> Frames] : n \in 0..MaxFrames}

HasErrorFrame(stream) == \E i \in 1..Len(stream) : stream[i] = "error"

\* PushLoop looking at the first frame only
PushLoop_FirstFrameOnly(stream) == stream = <<>> \/ Head(stream) # "error"

\* the loop of _push over the frames: False at the first frame with an 'error' key
RECURSIVE PushLoop(_)
PushLoop(stream) ==
    IF stream = <<>> THEN TRUE
    ELSE IF Head(stream) = "error" THEN FALSE
    ELSE PushLoop(Tail(stream))

\* _push(full_repo_name): the engine refuses to push a reference the local store
\* does not hold (an error frame); the call may also raise
_push(store, ref, raises, stream) ==
    IF raises THEN FALSE
    ELSE IF Resolve(store, ref) = NoImage THEN FALSE
    ELSE PushLoop(stream)

\* the call of one engine push, and the stream it answers with
PushCalls(store, ref, raises, stream) ==
    <<Call("engine.push", ~raises /\ Resolve(store, ref) # NoImage, ref)>>

PushStreams(store, ref, raises, stream) ==
    IF raises \/ Resolve(store, ref) = NoImage THEN <<>> ELSE <<stream>>

name_extractor(image) == SplitColon(image.tags0)[1]

\* tag_extractor: tags[0].split(":")[1]; None (<<>>) when there is no second piece
tag_extractor(image) ==
    IF Len(SplitColon(image.tags0)) >= 2 THEN SplitColon(image.tags0)[2] ELSE <<>>

\* the registry urls for which _build_full_name leaves the registry segment out
DefaultRegistries == {<<"docker.io">>, <<"index.docker.io">>, <<>>}

\* _build_full_name of a client whose __registry_url is `registry`
_build_full_name_for(registry, name, tag, namespace) ==
    IF registry \in DefaultRegistries
    THEN namespace \o <<"/">> \o name \o <<":">> \o tag
    ELSE registry \o <<"/">> \o namespace \o <<"/">> \o name \o <<":">> \o tag

_build_full_name(name, tag, namespace) ==
    _build_full_name_for(RegistryUrl, name, tag, namespace)

\* the target of _tag_image
TagTarget(namespace, name, tag) == namespace \o <<"/">> \o name \o <<":">> \o tag

_tag_image(store, image, namespace, name, tag, engineOk) ==
    IF engineOk
    THEN [ok |-> TRUE, store |-> EngineTag(store, image.id, TagTarget(namespace, name, tag))]
    ELSE [ok |-> FALSE, store |-> store]

\* the call of one image.tag
TagCalls(namespace, name, tag, engineOk) ==
    <<Call("engine.tag", engineOk, TagTarget(namespace, name, tag))>>

\* push_to_registry(image, push_latest) of a client whose __registry_url is
\* `registry` and whose namespace is `namespace`. p gives what the engine does:
\* p.tag1, p.tag2 (the tag calls succeed), p.raise1, p.raise2 (the push calls raise),
\* p.stream1, p.stream2 (the frames of the two pushes).
\* Result: ok, the store, __pushed_image, the engine pushes made, in order, the
\* streams they answered with, and all the engine calls made (tags and pushes)
push_to_registry_for(registry, namespace, store, pushed, image, push_latest, p) ==
    LET name == name_extractor(image)
        tag  == tag_extractor(image)
        t1   == _tag_image(store, image, namespace, name, tag, p.tag1)
        tg1  == TagCalls(namespace, name, tag, p.tag1)
        full == _build_full_name_for(registry, name, tag, namespace)
        ok1  == _push(t1.store, full, p.raise1, p.stream1)
        ev1  == PushCalls(t1.store, full, p.raise1, p.stream1)
        fr1  == PushStreams(t1.store, full, p.raise1, p.stream1)
        t2   == _tag_image(t1.store, image, namespace, name, <<"latest">>, p.tag2)
        tg2  == TagCalls(namespace, name, <<"latest">>, p.tag2)
        last == _build_full_name_for(registry, name, <<"latest">>, namespace)
        ok2  == _push(t2.store, last, p.raise2, p.stream2)
        ev2  == PushCalls(t2.store, last, p.raise2, p.stream2)
        fr2  == PushStreams(t2.store, last, p.raise2, p.stream2)
    IN  IF namespace = <<>>
        THEN [ok |-> FALSE, store |-> store, pushed |-> pushed, calls |-> <<>>,
              streams |-> <<>>, log |-> <<>>]
        ELSE IF name = <<>> \/ tag = <<>>
        THEN [ok |-> FALSE, store |-> store, pushed |-> pushed, calls |-> <<>>,
              streams |-> <<>>, log |-> <<>>]
        ELSE IF ~t1.ok
        THEN [ok |-> FALSE, store |-> store, pushed |-> pushed, calls |-> <<>>,
              streams |-> <<>>, log |-> tg1]
        ELSE IF ~ok1
        THEN [ok |-> FALSE, store |-> t1.store, pushed |-> pushed, calls |-> ev1,
              streams |-> fr1, log |-> tg1 \o ev1]
        ELSE IF ~push_latest
        THEN [ok |-> TRUE, store |-> t1.store, pushed |-> full, calls |-> ev1,
              streams |-> fr1, log |-> tg1 \o ev1]
        ELSE IF ~t2.ok
        THEN [ok |-> FALSE, store |-> t1.store, pushed |-> full, calls |-> ev1,
              streams |-> fr1, log |-> tg1 \o ev1 \o tg2]
        ELSE [ok |-> ok2, store |-> t2.store, pushed |-> full, calls |-> ev1 \o ev2,
              streams |-> fr1 \o fr2, log |-> tg1 \o ev1 \o tg2 \o ev2]

push_to_registry(store, pushed, image, push_latest, p) ==
    push_to_registry_for(RegistryUrl, Namespace, store, pushed, image, push_latest, p)

\* what the engine may do during one push_to_registry; the parts of a behaviour
\* that the call never reaches (after a failed tag or push, or without
\* push_latest) are left at their defaults, and a push that raises has no frames
OnePush == [raises : {FALSE}, stream : Streams] \cup {[raises |-> TRUE, stream |-> <<>>]}

Behaviour(tag1, p1, tag2, p2) ==
    [tag1 |-> tag1, raise1 |-> p1.raises, stream1 |-> p1.stream,
     tag2 |-> tag2, raise2 |-> p2.raises, stream2 |-> p2.stream]

QuietPush == [raises |-> FALSE, stream |-> <<>>]

PushBehaviours(push_latest) ==
    {Behaviour(FALSE, QuietPush, TRUE, QuietPush)}
    \cup {Behaviour(TRUE, p1, TRUE, QuietPush) :
             p1 \in {p \in OnePush : p.raises \/ HasErrorFrame(p.stream) \/ ~push_latest}}
    \cup {Behaviour(TRUE, p1, FALSE, QuietPush) :
             p1 \in {p \in OnePush : ~p.raises /\ ~HasErrorFrame(p.stream) /\ push_latest}}
    \cup {Behaviour(TRUE, p1, TRUE, p2) :
             p1 \in {p \in OnePush : ~p.raises /\ ~HasErrorFrame(p.stream) /\ push_latest},
             p2 \in OnePush}

-----------------------------------------------------------------------------
(* CIPipeLine *)

CIStages == <<"Build", "Run", "Test", "Push">>

CIStageEvents == {"Build", "Run", "Test", "Push"}

\* CIAfterStage with the cleanup left out when a step failed
CIAfterStage_NoCleanupOnFailure(stage, ok) ==
    IF ~ok THEN "ci_finish"
    ELSE CASE stage = "Build" -> "ci_run"
           [] stage = "Run"   -> "ci_test"
           [] stage = "Test"  -> "ci_push"
           [] stage = "Push"  -> "ci_stop"

\* CIAfterStage without the break
CIAfterStage_NoBreak(stage, ok) ==
    CASE stage = "Build" -> "ci_run"
      [] stage = "Run"   -> "ci_test"
      [] stage = "Test"  -> "ci_push"
      [] stage = "Push"  -> "ci_stop"

\* the loop of execute(): where control goes after step `stage` returned `ok`
\* (the next step, or out of the loop to the cleanup on a failure or after Push)
CIAfterStage(stage, ok) ==
    IF ~ok THEN "ci_stop"
    ELSE CASE stage = "Build" -> "ci_run"
           [] stage = "Run"   -> "ci_test"
           [] stage = "Test"  -> "ci_push"
           [] stage = "Push"  -> "ci_stop"

\* the loop of execute(): __status after step returned `ok`
CIStatusAfterStage(status, ok) == IF ok THEN status ELSE FALSE

\* BuildRejects without the check
BuildRejects_Never(store) == FALSE

\* build_step refuses to build when the image exists
BuildRejects(store) == image_exists(store)

\* build_step
CIBuildStep ==
    /\ pc = "ci_build"
    /\ \E engineOk \in BOOLEAN :
         IF BuildRejects(imageStore)
         THEN /\ trace' = Append(trace, Call("Build", FALSE, <<>>))
              /\ pc' = CIAfterStage("Build", FALSE)
              /\ ciStatus' = CIStatusAfterStage(ciStatus, FALSE)
              /\ UNCHANGED <<imageStore, ciImage>>
         ELSE LET b == build_image(imageStore, FreshImageId(imageStore), engineOk)
                  ok == b.image.id # NoImage
              IN  /\ imageStore' = b.store
                  /\ ciImage' = b.image
                  /\ trace' = trace \o <<Call("engine.build", engineOk, NameWithTag),
                                         Call("Build", ok, <<>>)>>
                  /\ pc' = CIAfterStage("Build", ok)
                  /\ ciStatus' = CIStatusAfterStage(ciStatus, ok)
    /\ args' = LiveArgs(args, pc')
    /\ UNCHANGED <<pushFrames, runs, outcome, containers, ciRunner, ciTest,
                   ciRegistry, ciRet, pushedImage, cdVars, remoteContainer, sshVars,
                   logCmds, orchStatus>>

\* run_step
CIRunStep ==
    /\ pc = "ci_run"
    /\ IF ciImage.id = NoImage
       THEN /\ trace' = Append(trace, Call("Run", FALSE, <<>>))
            /\ pc' = CIAfterStage("Run", FALSE)
            /\ ciStatus' = CIStatusAfterStage(ciStatus, FALSE)
            /\ UNCHANGED <<containers, ciRunner>>
       ELSE \E o \in StartOutcomes :
              LET r == start_container(containers, FreshContainerId(containers), o)
              IN  /\ containers' = r.containers
                  /\ ciRunner' = r.container
                  /\ trace' = trace \o <<Call("engine.run", o \notin {"error", "created"}, ciImage.tags0),
                                         Call("Run", r.ok, <<>>)>>
                  /\ pc' = CIAfterStage("Run", r.ok)
                  /\ ciStatus' = CIStatusAfterStage(ciStatus, r.ok)
    /\ args' = LiveArgs(args, pc')
    /\ UNCHANGED <<pushFrames, runs, outcome, imageStore, ciImage, ciTest,
                   ciRegistry, ciRet, pushedImage, cdVars, remoteContainer, sshVars,
                   logCmds, orchStatus>>

\* test_step: no hook is a success; a hook that raises is a failure
TestOutcomes == {"pass", "fail", "raise"}

test_step(hasTest, o) == IF ~hasTest THEN TRUE ELSE o = "pass"

CITestStep ==
    /\ pc = "ci_test"
    /\ \E o \in TestOutcomes :
         LET ok == test_step(ciTest, o)
         IN  /\ trace' = (IF ciTest THEN Append(trace, Call("hook", o # "raise", <<>>))
                          ELSE trace) \o <<Call("Test", ok, <<>>)>>
             /\ pc' = CIAfterStage("Test", ok)
             /\ ciStatus' = CIStatusAfterStage(ciStatus, ok)
    /\ args' = LiveArgs(args, pc')
    /\ UNCHANGED <<pushFrames, runs, outcome, engineVars, ciImage, ciRunner, ciTest,
                   ciRegistry, ciRet, pushedImage, cdVars, remoteContainer, sshVars,
                   logCmds, orchStatus>>

\* the push_latest that Orchestrator.execute hands to CIPipeLine.execute
EffectivePushLatest(a) == IF a.push THEN a.push_latest ELSE FALSE

\* push_step
CIPushStep ==
    /\ pc = "ci_push"
    /\ IF ~ciRegistry
       THEN /\ trace' = Append(trace, Call("Push", TRUE, <<>>))
            /\ pc' = CIAfterStage("Push", TRUE)
            /\ UNCHANGED <<imageStore, pushedImage, ciStatus, pushFrames>>
       ELSE \E p \in PushBehaviours(EffectivePushLatest(args)) :
              LET r == push_to_registry(imageStore, pushedImage, ciImage,
                                        EffectivePushLatest(args), p)
              IN  /\ imageStore' = r.store
                  /\ pushedImage' = r.pushed
                  /\ trace' = trace \o r.log \o <<Call("Push", r.ok, <<>>)>>
                  /\ pushFrames' = r.streams
                  /\ pc' = CIAfterStage("Push", r.ok)
                  /\ ciStatus' = CIStatusAfterStage(ciStatus, r.ok)
    /\ args' = LiveArgs(args, pc')
    /\ UNCHANGED <<runs, outcome, containers,
                   ciImage, ciRunner, ciTest, ciRegistry, ciRet, cdVars,
                   remoteContainer, sshVars, logCmds,
                   orchStatus>>

\* stop_step, called by execute() after the loop
CIStopStep ==
    /\ pc = "ci_stop"
    /\ LET r == IF ciRunner = NoRunner
                THEN [ok |-> TRUE, engineStop |-> FALSE, containers |-> containers]
                ELSE stop_container(containers, ciRunner)
       IN  /\ containers' = r.containers
           /\ trace' = (IF r.engineStop
                        THEN Append(trace, Call("engine.stop", TRUE, <<>>)) ELSE trace)
                       \o <<Call("stop_step", r.ok, <<>>)>>
    /\ pc' = "ci_remove"
    /\ pushFrames' = <<>>
    /\ UNCHANGED <<runs, args, outcome, imageStore, ciVars,
                   pushedImage, cdVars, remoteContainer, sshVars, logCmds,
                   orchStatus>>

\* remove_step, called by execute() after stop_step
CIRemoveStep ==
    /\ pc = "ci_remove"
    /\ LET r == IF ciRunner = NoRunner
                THEN [ok |-> TRUE, engineRemove |-> FALSE, containers |-> containers]
                ELSE remove_container(containers, ciRunner)
       IN  /\ containers' = r.containers
           /\ trace' = (IF r.engineRemove
                        THEN Append(trace, Call("engine.remove", TRUE, <<>>)) ELSE trace)
                       \o <<Call("remove_step", r.ok, <<>>)>>
    /\ pc' = "ci_finish"
    /\ UNCHANGED <<pushFrames, runs, args, outcome, imageStore, ciVars,
                   pushedImage, cdVars, remoteContainer, sshVars, logCmds,
                   orchStatus>>

\* cleanup_local_image: removes the reference tags[0] of the image built
cleanup_local_image(store, image) ==
    IF image.id = NoImage THEN [ok |-> TRUE, store |-> store]
    ELSE IF Resolve(store, image.tags0) = NoImage      \* images.remove raises
    THEN [ok |-> FALSE, store |-> store]
    ELSE [ok |-> TRUE, store |-> EngineRemoveRef(store, image.tags0)]

\* the end of execute(): mark_failed_build and False, or cleanup_local_image and True
CIFinish ==
    /\ pc = "ci_finish"
    /\ IF ~ciStatus
       THEN LET r == rename_on_failure(imageStore)
            IN  /\ imageStore' = r.store
                /\ trace' = trace \o <<Call("mark_failed_build", r.ok, <<>>),
                                       Call("ci.return", FALSE, <<>>)>>
                /\ ciRet' = "False"
       ELSE LET r == cleanup_local_image(imageStore, ciImage)
            IN  /\ imageStore' = r.store
                /\ trace' = trace \o <<Call("ci.cleanup_local_image", r.ok, <<>>),
                                       Call("ci.return", TRUE, <<>>)>>
                /\ ciRet' = "True"
    /\ pc' = "orch_after_ci"
    /\ UNCHANGED <<pushFrames, runs, args, outcome, containers,
                   ciStatus, ciImage, ciRunner, ciTest, ciRegistry, pushedImage, cdVars,
                   remoteContainer, sshVars, logCmds,
                   orchStatus>>

-----------------------------------------------------------------------------
(* SSHClientManager *)

\* connect without the "if self.__connected" guard
connect_NoGuard(connected, client, connOk) ==
    IF connOk THEN [ok |-> TRUE, connected |-> TRUE, client |-> "open", opened |-> TRUE]
    ELSE [ok |-> FALSE, connected |-> FALSE, client |-> "dead", opened |-> FALSE]

\* connect(): a no-op when connected; otherwise a new client is made and its
\* transport opened (connOk) or not (the client is left without a transport)
connect(connected, client, connOk) ==
    IF connected THEN [ok |-> TRUE, connected |-> TRUE, client |-> client, opened |-> FALSE]
    ELSE IF connOk THEN [ok |-> TRUE, connected |-> TRUE, client |-> "open", opened |-> TRUE]
    ELSE [ok |-> FALSE, connected |-> FALSE, client |-> "dead", opened |-> FALSE]

\* execute_command without the connect of a session that is not connected
execute_command_NoAutoConnect(connected, client, connOk) ==
    [connected |-> connected, client |-> client, raises |-> client # "open",
     calls |-> <<Call("exec_command", client = "open", <<>>)>>]

\* execute_command(cmd): connects when not connected, ignores what connect()
\* returned, and calls exec_command on the client, which raises without a transport
\* (calls: the connect() it makes, if any, then exec_command)
execute_command(connected, client, connOk) ==
    LET c == IF ~connected THEN connect(connected, client, connOk)
             ELSE [ok |-> TRUE, connected |-> connected, client |-> client, opened |-> FALSE]
    IN  [connected |-> c.connected, client |-> c.client, raises |-> c.client # "open",
         calls |-> (IF ~connected
                    THEN <<Call("connect", c.ok, IF c.opened THEN <<"opened">> ELSE <<>>)>>
                    ELSE <<>>)
                   \o <<Call("exec_command", c.client = "open", <<>>)>>]

\* disconnect that drops the client and keeps the __connected flag
disconnect_KeepsFlag(connected, client) ==
    IF client # "None" THEN [connected |-> connected, client |-> "None", calls |-> <<Call("close", TRUE, <<>>)>>]
    ELSE [connected |-> connected, client |-> client, calls |-> <<>>]

\* disconnect() (calls: the close() of the client, if there is one)
disconnect(connected, client) ==
    IF client # "None"
    THEN [connected |-> FALSE, client |-> "None", calls |-> <<Call("close", TRUE, <<>>)>>]
    ELSE [connected |-> connected, client |-> client, calls |-> <<>>]

-----------------------------------------------------------------------------
(* RemoteDockerDeployer: each operator gives what the method returns and leaves,
   given the exit code of the one remote command it runs *)

\* _docker_login taking any exit code of the remote login for a success
_docker_login_IgnoresExitCode(credentials, code) ==
    IF ~credentials THEN [ok |-> FALSE, ran |-> FALSE] ELSE [ok |-> TRUE, ran |-> TRUE]

\* _docker_login: credentials tells whether DOCKER_USERNAME and DOCKER_PASSWORD
\* are both set, code is the exit code of the remote "docker login"
_docker_login(credentials, code) ==
    IF ~credentials THEN [ok |-> FALSE, ran |-> FALSE]
    ELSE IF code # 0 THEN [ok |-> FALSE, ran |-> TRUE]
    ELSE [ok |-> TRUE, ran |-> TRUE]

pull_image(image, code, pulled) ==
    IF image = <<>> THEN [ok |-> FALSE, ran |-> FALSE, pulled |-> pulled]
    ELSE IF code # 0 THEN [ok |-> FALSE, ran |-> TRUE, pulled |-> pulled]
    ELSE [ok |-> TRUE, ran |-> TRUE, pulled |-> image]

\* exit code of the shell's true
TrueExitCode == 0

\* ShellOrTrue without the "|| true"
ShellOrTrue_Missing(code) == code

\* exit code of "<command> || true", given the exit code of <command>
ShellOrTrue(code) == IF code = 0 THEN code ELSE TrueExitCode

\* exit codes of "docker rm -f <name>": 0 when it removed the container; for a
\* name that no container has, 0 or 1 depending on the docker version
RmExitCodes(remote) == IF remote = <<>> THEN {0, 1} ELSE {0}

stop_existing_container(code, remote) ==
    IF ContainerName = <<>> THEN [ok |-> TRUE, ran |-> FALSE, remote |-> remote]
    ELSE IF code = 0 THEN [ok |-> TRUE, ran |-> TRUE, remote |-> <<>>]
    ELSE [ok |-> FALSE, ran |-> TRUE, remote |-> remote]

\* "docker run -d --name <name> <image>" fails when the name is taken
run_new_container(pulled, code, remote) ==
    IF pulled = <<>> THEN [ok |-> FALSE, ran |-> FALSE, remote |-> remote]
    ELSE IF remote # <<>> \/ code # 0 THEN [ok |-> FALSE, ran |-> TRUE, remote |-> remote]
    ELSE [ok |-> TRUE, ran |-> TRUE, remote |-> pulled]

\* fetch_logs(max_retries=5, delay=1)
FetchLogsMaxRetries == 5

-----------------------------------------------------------------------------
(* CDPipeline *)

CDStageEvents == {"cd.pull_step", "cd.stop_step", "cd.run_step"}

CDEvents == CDStageEvents \cup {"cd.execute", "cd.logs_step", "cd.cleanup_local_image",
                                "cd.return", "remote.pull", "remote.rm", "remote.run",
                                "cd.logs_begin"}

\* CDAfterStage without the break
CDAfterStage_NoBreak(stage, ok) ==
    CASE stage = "cd.pull_step" -> "cd_stop"
      [] stage = "cd.stop_step" -> "cd_run"
      [] stage = "cd.run_step"  -> "cd_logs"

\* the loop of execute(): where control goes after step `stage` returned `ok`
CDAfterStage(stage, ok) ==
    IF ~ok THEN "cd_logs"
    ELSE CASE stage = "cd.pull_step" -> "cd_stop"
           [] stage = "cd.stop_step" -> "cd_run"
           [] stage = "cd.run_step"  -> "cd_logs"

CDStatusAfterStage(status, ok) == IF ok THEN status ELSE FALSE

\* an exception leaves Orchestrator.execute()
Raise ==
    /\ pc' = "idle"
    /\ outcome' = "raised"
    /\ trace' = <<>>
    /\ args' = DefaultArgs

\* ImageToDeploy asking the registry client's reference for the latest alias
ImageToDeploy_Latest(image, hasRegistry, pushed) ==
    IF image # <<>> THEN image
    ELSE IF hasRegistry /\ pushed # <<>>
    THEN SplitColon(pushed)[1] \o <<":", "latest">>
    ELSE <<>>

\* the image pull_step settles on: its own, else the registry client's
\* get_pushed_image_name() when a registry client is set
ImageToDeploy(image, hasRegistry, pushed) ==
    IF image # <<>> THEN image
    ELSE IF hasRegistry THEN pushed ELSE <<>>

\* pull_step
CDPullStep ==
    /\ pc = "cd_pull"
    /\ LET img == ImageToDeploy(cdImage, ciRegistry, pushedImage)
       IN  /\ cdImage' = img
           /\ IF img = <<>>
              THEN /\ trace' = Append(trace, Call("cd.pull_step", TRUE, <<>>))
                   /\ pc' = CDAfterStage("cd.pull_step", TRUE)
                   /\ UNCHANGED <<cdStatus, cdLoopStatus, deployerPulled, sshVars, outcome, args>>
              ELSE \E connOk \in BOOLEAN, code \in {0, 1} :
                     LET x == execute_command(sshConnected, sshClient, connOk)
                         r == pull_image(img, code, deployerPulled)
                     IN  /\ sshConnected' = x.connected
                         /\ sshClient' = x.client
                         /\ IF x.raises
                            THEN /\ Raise
                                 /\ UNCHANGED <<cdStatus, cdLoopStatus, deployerPulled>>
                            ELSE /\ deployerPulled' = r.pulled
                                 /\ trace' = trace \o <<Call("remote.pull", code = 0, img),
                                                        Call("cd.pull_step", r.ok, <<>>)>>
                                 /\ pc' = CDAfterStage("cd.pull_step", r.ok)
                                 /\ cdStatus' = CDStatusAfterStage(cdStatus, r.ok)
                                 /\ UNCHANGED <<cdLoopStatus, outcome, args>>
    /\ UNCHANGED <<pushFrames, runs, engineVars, ciVars, pushedImage, cdPresent, cdRet,
                   remoteContainer, logCmds, orchStatus>>

\* stop_step
CDStopStep ==
    /\ pc = "cd_stop"
    /\ \E connOk \in BOOLEAN, rmCode \in RmExitCodes(remoteContainer) :
         LET x == execute_command(sshConnected, sshClient, connOk)
             r == stop_existing_container(ShellOrTrue(rmCode), remoteContainer)
         IN  /\ sshConnected' = x.connected
             /\ sshClient' = x.client
             /\ IF x.raises
                THEN /\ Raise
                     /\ UNCHANGED <<cdStatus, cdLoopStatus, remoteContainer>>
                ELSE /\ remoteContainer' = r.remote
                     /\ trace' = trace \o <<Call("remote.rm", TRUE, ContainerName),
                                            Call("cd.stop_step", r.ok, <<>>)>>
                     /\ pc' = CDAfterStage("cd.stop_step", r.ok)
                     /\ cdStatus' = CDStatusAfterStage(cdStatus, r.ok)
                     /\ UNCHANGED <<cdLoopStatus, outcome, args>>
    /\ UNCHANGED <<pushFrames, runs, engineVars, ciVars, pushedImage, cdPresent, cdImage, cdRet,
                   deployerPulled, logCmds, orchStatus>>

\* run_step
CDRunStep ==
    /\ pc = "cd_run"
    /\ IF deployerPulled = <<>>
       THEN /\ trace' = Append(trace, Call("cd.run_step", FALSE, <<>>))
            /\ pc' = CDAfterStage("cd.run_step", FALSE)
            /\ cdStatus' = CDStatusAfterStage(cdStatus, FALSE)
            /\ UNCHANGED <<cdLoopStatus, remoteContainer, sshVars, outcome, args>>
       ELSE \E connOk \in BOOLEAN, code \in {0, 1} :
              LET x == execute_command(sshConnected, sshClient, connOk)
                  r == run_new_container(deployerPulled, code, remoteContainer)
              IN  /\ sshConnected' = x.connected
                  /\ sshClient' = x.client
                  /\ IF x.raises
                     THEN /\ Raise
                          /\ UNCHANGED <<cdStatus, cdLoopStatus, remoteContainer>>
                     ELSE /\ remoteContainer' = r.remote
                          /\ trace' = trace \o <<Call("remote.run", r.ok, deployerPulled),
                                                 Call("cd.run_step", r.ok, <<>>)>>
                          /\ pc' = CDAfterStage("cd.run_step", r.ok)
                          /\ cdStatus' = CDStatusAfterStage(cdStatus, r.ok)
                          /\ UNCHANGED <<cdLoopStatus, outcome, args>>
    /\ UNCHANGED <<pushFrames, runs, engineVars, ciVars, pushedImage, cdPresent, cdImage, cdRet,
                   deployerPulled, logCmds, orchStatus>>

\* FetchLogsContinues without the break on a non-empty output
FetchLogsContinues_NoBreak(attempt, empty, max_retries) == attempt < max_retries

\* the loop of fetch_logs(max_retries) after read number `attempt`: another
\* read is made while the output is empty and attempts remain
FetchLogsContinues(attempt, empty, max_retries) == empty /\ attempt < max_retries

\* the loop of fetch_logs after a read, with the default max_retries
FetchLogsRetries(attempt, empty) ==
    FetchLogsContinues(attempt, empty, FetchLogsMaxRetries)

\* out.strip(): the output without its leading and trailing whitespace
RECURSIVE Strip(_)
Strip(out) ==
    IF out = <<>> THEN <<>>
    ELSE IF Head(out) = " " THEN Strip(Tail(out))
    ELSE IF out[Len(out)] = " " THEN Strip(SubSeq(out, 1, Len(out) - 1))
    ELSE out

\* what the remote "docker logs" may print
LogOutputs == {<<>>, <<" ">>, <<"log">>}

\* the end of fetch_logs, given the reads made ([out, code] each): `code` is
\* not bound when the loop made no read (UnboundLocalError at "if code != 0");
\* None when the last read's exit code is not 0; the last output otherwise
FetchLogsResult(reads) ==
    IF reads = <<>> THEN [raises |-> TRUE, none |-> FALSE, out |-> <<>>]
    ELSE IF reads[Len(reads)].code # 0 THEN [raises |-> FALSE, none |-> TRUE, out |-> <<>>]
    ELSE [raises |-> FALSE, none |-> FALSE, out |-> reads[Len(reads)].out]

\* fetch_logs returns None when the last read's exit code is not 0;
\* logs_step returns True unless fetch_logs returned None
logs_step(code) == code = 0

\* CDStatusAfterLogs with a failed logs step failing the pipeline
CDStatusAfterLogs_Fails(status, logsOk) == status /\ logsOk

\* execute() discards what logs_step returned: __status after the logs step
CDStatusAfterLogs(status, logsOk) == status

\* logs_step, one "docker logs" attempt of its fetch_logs at a time
CDLogsStep ==
    /\ pc = "cd_logs"
    /\ \E connOk \in BOOLEAN, empty \in BOOLEAN, code \in {0, 1} :
         LET x == execute_command(sshConnected, sshClient, connOk)
             first == Count(trace, "cd.logs_begin") = 0
             attempt == IF first THEN 1 ELSE logCmds + 1
         IN  /\ sshConnected' = x.connected
             /\ sshClient' = x.client
             /\ cdLoopStatus' = IF first THEN cdStatus ELSE cdLoopStatus
             /\ IF x.raises
                THEN /\ Raise
                     /\ UNCHANGED <<cdStatus, logCmds>>
                ELSE /\ logCmds' = attempt
                     /\ UNCHANGED <<outcome, args>>
                     /\ IF FetchLogsRetries(attempt, empty)
                        THEN /\ trace' = IF first
                                         THEN Append(trace, Call("cd.logs_begin", TRUE, <<>>))
                                         ELSE trace
                             /\ pc' = "cd_logs"
                             /\ UNCHANGED cdStatus
                        ELSE /\ trace' = (IF first
                                          THEN Append(trace, Call("cd.logs_begin", TRUE, <<>>))
                                          ELSE trace)
                                         \o <<Call("cd.logs_step", logs_step(code), <<>>)>>
                             /\ cdStatus' = CDStatusAfterLogs(cdStatus, logs_step(code))
                             /\ pc' = "cd_cleanup"
    /\ UNCHANGED <<pushFrames, runs, engineVars, ciVars, pushedImage, cdPresent, cdImage, cdRet,
                   deployerPulled, remoteContainer, orchStatus>>

\* CDPipeline.cleanup_local_image: removes the reference deployed and, unless it
\* is itself a :latest reference, the :latest reference of the same repository
cd_cleanup_local_image(store, image) ==
    IF image = <<>> THEN [ok |-> TRUE, store |-> store]
    ELSE IF Resolve(store, image) = NoImage           \* images.remove raises
    THEN [ok |-> FALSE, store |-> store]
    ELSE IF \E i \in 1..(Len(image) - 1) : image[i] = ":" /\ image[i+1] = "latest"
    THEN [ok |-> TRUE, store |-> EngineRemoveRef(store, image)]
    ELSE [ok |-> TRUE,
          store |-> EngineRemoveRef(EngineRemoveRef(store, image),
                                    SplitColon(image)[1] \o <<":", "latest">>)]

CDCleanupLocalImage ==
    /\ pc = "cd_cleanup"
    /\ LET r == cd_cleanup_local_image(imageStore, cdImage)
       IN  /\ imageStore' = r.store
           /\ trace' = Append(trace, Call("cd.cleanup_local_image", r.ok, <<>>))
    /\ pc' = "cd_finish"
    /\ logCmds' = 0
    /\ UNCHANGED <<pushFrames, runs, args, outcome, containers, ciVars,
                   pushedImage, cdVars, remoteContainer, sshVars, orchStatus>>

\* the end of CDPipeline.execute(): return self.__status
CDFinish ==
    /\ pc = "cd_finish"
    /\ cdRet' = PyStr(cdStatus)
    /\ trace' = Append(trace, Call("cd.return", cdStatus, <<>>))
    /\ pc' = "orch_after_cd"
    /\ UNCHANGED <<pushFrames, runs, args, outcome, engineVars, ciVars, pushedImage, cdPresent,
                   cdStatus, cdLoopStatus, cdImage, deployerPulled, remoteContainer,
                   sshVars, logCmds, orchStatus>>

-----------------------------------------------------------------------------
(* Orchestrator *)

ArgSets ==
    [run_ci : BOOLEAN, run_cd : BOOLEAN, skip_tests : BOOLEAN, push : BOOLEAN,
     push_latest : BOOLEAN]

\* Orchestrator.execute() returns self.status
Return ==
    /\ pc' = "idle"
    /\ outcome' = "returned"
    /\ trace' = <<>>
    /\ args' = DefaultArgs

\* execute(run_ci, run_cd, skip_tests, push, push_latest) up to the call of the CI pipeline
OrchExecute ==
    /\ pc = "idle"
    /\ runs < MaxRuns
    /\ \E a \in ArgSets :
         /\ args' = LiveArgs(a, IF a.run_ci THEN "ci_build" ELSE "orch_cd")
         /\ IF a.run_ci
            THEN /\ ciTest' = IF a.skip_tests THEN FALSE ELSE ciTest
                 /\ trace' = <<Call("ci.execute", TRUE, <<>>)>>
                 /\ pc' = "ci_build"
                 /\ UNCHANGED orchStatus
            ELSE /\ orchStatus' = [orchStatus EXCEPT !.CI = "Skipped"]
                 /\ trace' = <<>>
                 /\ pc' = "orch_cd"
                 /\ UNCHANGED ciTest
    /\ runs' = runs + 1
    /\ outcome' = "none"
    /\ ciRet' = "None"
    /\ UNCHANGED <<pushFrames, engineVars, ciStatus, ciImage, ciRunner, ciRegistry, pushedImage,
                   cdVars, remoteContainer, sshVars, logCmds>>

\* OrchAbortsAfterCI without the early return
OrchAbortsAfterCI_Never(ci_result) == FALSE

\* "if not ci_result": the CD phase is abandoned
OrchAbortsAfterCI(ci_result) == ci_result # "True"

\* execute() after the CI pipeline returned
OrchAfterCI ==
    /\ pc = "orch_after_ci"
    /\ orchStatus' = [orchStatus EXCEPT !.CI = ciRet]
    /\ IF OrchAbortsAfterCI(ciRet)
       THEN Return
       ELSE /\ pc' = "orch_cd"
            /\ UNCHANGED <<outcome, trace, args>>
    /\ UNCHANGED <<pushFrames, runs, engineVars, ciVars, pushedImage, cdVars,
                   remoteContainer, sshVars, logCmds>>

\* the CD phase of execute(): the CD pipeline is entered, or CD is "Skipped"
OrchCDPhase ==
    /\ pc = "orch_cd"
    /\ IF args.run_cd /\ cdPresent
       THEN /\ trace' = <<Call("cd.execute", TRUE, <<>>)>>
            /\ pc' = "cd_pull"
            /\ args' = LiveArgs(args, pc')
            /\ UNCHANGED <<orchStatus, outcome>>
       ELSE /\ orchStatus' = [orchStatus EXCEPT !.CD = "Skipped"]
            /\ Return
    /\ UNCHANGED <<pushFrames, runs, engineVars, ciVars, pushedImage, cdVars, remoteContainer,
                   sshVars, logCmds>>

\* execute() after the CD pipeline returned
OrchAfterCD ==
    /\ pc = "orch_after_cd"
    /\ orchStatus' = [orchStatus EXCEPT !.CD = cdRet]
    /\ Return
    /\ UNCHANGED <<pushFrames, runs, engineVars, ciVars, pushedImage, cdVars,
                   remoteContainer, sshVars, logCmds>>

-----------------------------------------------------------------------------
(* The caller, between two runs of the orchestrator *)

\* ssh_client.disconnect(), as __main__ does after a run
SSHDisconnect ==
    /\ pc = "idle"
    /\ sshClient # "None"
    /\ LET d == disconnect(sshConnected, sshClient)
       IN  /\ sshConnected' = d.connected
           /\ sshClient' = d.client
    /\ UNCHANGED <<pushFrames, pc, runs, args, outcome, trace, engineVars, ciVars, pushedImage, cdVars,
                   remoteContainer, logCmds, orchStatus>>

\* ssh_client.connect()
SSHConnect ==
    /\ pc = "idle"
    /\ ~sshConnected
    /\ \E connOk \in BOOLEAN :
         LET c == connect(sshConnected, sshClient, connOk)
         IN  /\ sshConnected' = c.connected
             /\ sshClient' = c.client
    /\ UNCHANGED <<pushFrames, pc, runs, args, outcome, trace, engineVars, ciVars, pushedImage, cdVars,
                   remoteContainer, logCmds, orchStatus>>

-----------------------------------------------------------------------------
(* The state after the constructions of __main__: the registry client, the
   builder, the CI pipeline, the connected SSH session, the deployer (logged
   in), the CD pipeline sharing the registry client, the orchestrator.  The
   image name:tag may already be in the local store; a test hook has been
   given with set_test (skip_tests removes it); the registry client of the CI
   pipeline is optional. *)
Init ==
    /\ pc = "idle"
    /\ runs = 0
    /\ args = DefaultArgs
    /\ outcome = "none"
    /\ trace = <<>>
    /\ pushFrames = <<>>
    /\ \E pre \in BOOLEAN :
         imageStore = IF pre THEN {[ref |-> NameWithTag, id |-> 1]} ELSE {}
    /\ containers = {}
    /\ ciStatus = TRUE
    /\ ciImage = [id |-> NoImage, tags0 |-> <<>>]
    /\ ciRunner = NoRunner
    /\ ciTest = TRUE
    /\ ciRegistry \in BOOLEAN
    /\ ciRet = "None"
    /\ pushedImage = <<>>
    /\ cdPresent = TRUE
    /\ cdStatus = TRUE
    /\ cdLoopStatus = TRUE
    /\ cdImage = <<>>
    /\ cdRet = "None"
    /\ deployerPulled = <<>>
    /\ remoteContainer = <<"old-image">>
    /\ sshConnected = TRUE
    /\ sshClient = "open"
    /\ logCmds = 0
    /\ orchStatus = [CI |-> "None", CD |-> "None"]

Next ==
    \/ OrchExecute
    \/ CIBuildStep
    \/ CIRunStep
    \/ CITestStep
    \/ CIPushStep
    \/ CIStopStep
    \/ CIRemoveStep
    \/ CIFinish
    \/ OrchAfterCI
    \/ OrchCDPhase
    \/ CDPullStep
    \/ CDStopStep
    \/ CDRunStep
    \/ CDLogsStep
    \/ CDCleanupLocalImage
    \/ CDFinish
    \/ OrchAfterCD
    \/ SSHDisconnect
    \/ SSHConnect

Spec == Init /\ [][Next]_vars

-----------------------------------------------------------------------------
(* The components on their own: the state a component specification starts
   from has control at `p`, the calls `t` made, the SSH session connected or
   not, and everything else as the constructors leave it *)
ComponentInit(p, t, connected) ==
    /\ pc = p
    /\ runs = 0
    /\ args = DefaultArgs
    /\ outcome = "none"
    /\ trace = t
    /\ pushFrames = <<>>
    /\ imageStore = {}
    /\ containers = {}
    /\ ciStatus = TRUE
    /\ ciImage = [id |-> NoImage, tags0 |-> <<>>]
    /\ ciRunner = NoRunner
    /\ ciTest = FALSE
    /\ ciRegistry = FALSE
    /\ ciRet = "None"
    /\ pushedImage = <<>>
    /\ cdPresent = FALSE
    /\ cdStatus = TRUE
    /\ cdLoopStatus = TRUE
    /\ cdImage = <<>>
    /\ cdRet = "None"
    /\ deployerPulled = <<>>
    /\ remoteContainer = <<>>
    /\ sshConnected = connected
    /\ sshClient = (IF connected THEN "open" ELSE "None")
    /\ logCmds = 0
    /\ orchStatus = [CI |-> "None", CD |-> "None"]

\* everything but the SSH session and the calls made
notSSH == <<pc, runs, args, outcome, pushFrames, engineVars, ciVars, pushedImage, cdVars,
            remoteContainer, logCmds, orchStatus>>

-----------------------------------------------------------------------------
(* SSHClientManager, called directly: any sequence of connect(),
   execute_command(cmd) and disconnect() on a new manager.  An exception of
   execute_command is caught by the caller. *)

SSHCallEvents == {"call.connect", "call.execute_command", "call.disconnect"}

SSHCallsMade == Len(Only(trace, SSHCallEvents))

SSHCallConnect ==
    /\ pc = "ssh"
    /\ SSHCallsMade < MaxCalls
    /\ \E connOk \in BOOLEAN :
         LET c == connect(sshConnected, sshClient, connOk)
         IN  /\ sshConnected' = c.connected
             /\ sshClient' = c.client
             /\ trace' = trace \o <<Call("call.connect", TRUE, <<>>),
                                    Call("connect", c.ok, IF c.opened THEN <<"opened">> ELSE <<>>)>>
    /\ UNCHANGED notSSH

SSHCallExecute ==
    /\ pc = "ssh"
    /\ SSHCallsMade < MaxCalls
    /\ \E connOk \in BOOLEAN :
         LET x == execute_command(sshConnected, sshClient, connOk)
         IN  /\ sshConnected' = x.connected
             /\ sshClient' = x.client
             /\ trace' = trace
                    \o <<Call("call.execute_command", TRUE,
                              IF sshConnected THEN <<"connected">> ELSE <<"not connected">>)>>
                    \o x.calls
    /\ UNCHANGED notSSH

SSHCallDisconnect ==
    /\ pc = "ssh"
    /\ SSHCallsMade < MaxCalls
    /\ LET d == disconnect(sshConnected, sshClient)
       IN  /\ sshConnected' = d.connected
           /\ sshClient' = d.client
           /\ trace' = trace \o <<Call("call.disconnect", TRUE, <<>>)>> \o d.calls
    /\ UNCHANGED notSSH

\* a new SSHClientManager: __client None, __connected False
InitSSH == ComponentInit("ssh", <<>>, FALSE)

NextSSH ==
    \/ SSHCallConnect
    \/ SSHCallExecute
    \/ SSHCallDisconnect

SpecSSH == InitSSH /\ [][NextSSH]_vars

-----------------------------------------------------------------------------
(* RemoteDockerDeployer, called directly: the construction of a deployer,
   then any sequence of pull_image(image), stop_existing_container() and
   run_new_container() on it, while the owner of the SSH session may
   disconnect it.  An exception of execute_command is caught by the caller. *)

DeployerCallEvents == {"pull_image", "stop_existing_container", "run_new_container",
                       "raise"}

DeployerCallsMade == Len(Only(trace, DeployerCallEvents))

\* everything but the deployer, its SSH session, the remote host and the calls made
notDeployer == <<pc, runs, args, outcome, pushFrames, engineVars, ciVars, pushedImage,
                 cdPresent, cdStatus, cdLoopStatus, cdImage, cdRet, logCmds, orchStatus>>

\* RemoteDockerDeployer(ssh_client, container_name): a constructor that raises
\* leaves no instance ("deployer_failed")
DeployerConstruct ==
    /\ pc = "deployer_new"
    /\ \E credentials \in BOOLEAN, connOk \in BOOLEAN, code \in {0, 1} :
         LET x == IF credentials THEN execute_command(sshConnected, sshClient, connOk)
                  ELSE [connected |-> sshConnected, client |-> sshClient, raises |-> FALSE]
             r == _docker_login(credentials, code)
         IN  /\ sshConnected' = x.connected
             /\ sshClient' = x.client
             /\ IF x.raises
                THEN /\ trace' = Append(trace, Call("raise", FALSE, <<>>))
                     /\ pc' = "deployer_failed"
                ELSE /\ trace' = trace
                                  \o (IF r.ran THEN <<Call("remote.login", code = 0, <<>>)>>
                                      ELSE <<>>)
                                  \o <<Call("RemoteDockerDeployer", r.ok, <<>>)>>
                     /\ pc' = IF r.ok THEN "deployer" ELSE "deployer_failed"
    /\ UNCHANGED <<runs, args, outcome, pushFrames, engineVars, ciVars, pushedImage, cdVars,
                   remoteContainer, logCmds, orchStatus>>

\* ssh_client.disconnect(), called by the owner of the session between two
\* calls on the deployer
DeployerSessionDisconnect ==
    /\ pc = "deployer"
    /\ sshClient # "None"
    /\ LET d == disconnect(sshConnected, sshClient)
       IN  /\ sshConnected' = d.connected
           /\ sshClient' = d.client
    /\ UNCHANGED <<trace, notDeployer, deployerPulled, remoteContainer>>

DeployerPull ==
    /\ pc = "deployer"
    /\ DeployerCallsMade < MaxCalls
    /\ \E connOk \in BOOLEAN, code \in {0, 1} :
         LET x == execute_command(sshConnected, sshClient, connOk)
             img == Namespace \o <<"/">> \o NameWithTag
             r == pull_image(img, code, deployerPulled)
         IN  /\ sshConnected' = x.connected
             /\ sshClient' = x.client
             /\ IF x.raises
                THEN /\ trace' = Append(trace, Call("raise", FALSE, <<>>))
                     /\ UNCHANGED deployerPulled
                ELSE /\ deployerPulled' = r.pulled
                     /\ trace' = trace \o <<Call("remote.pull", code = 0, img),
                                            Call("pull_image", r.ok, <<>>)>>
    /\ UNCHANGED <<notDeployer, remoteContainer>>

DeployerStop ==
    /\ pc = "deployer"
    /\ DeployerCallsMade < MaxCalls
    /\ \E connOk \in BOOLEAN, rmCode \in RmExitCodes(remoteContainer) :
         LET x == execute_command(sshConnected, sshClient, connOk)
             r == stop_existing_container(ShellOrTrue(rmCode), remoteContainer)
         IN  /\ sshConnected' = x.connected
             /\ sshClient' = x.client
             /\ IF x.raises
                THEN /\ trace' = Append(trace, Call("raise", FALSE, <<>>))
                     /\ UNCHANGED remoteContainer
                ELSE /\ remoteContainer' = r.remote
                     /\ trace' = trace \o <<Call("remote.rm", rmCode = 0, remoteContainer),
                                            Call("stop_existing_container", r.ok, <<>>)>>
    /\ UNCHANGED <<notDeployer, deployerPulled>>

DeployerRun ==
    /\ pc = "deployer"
    /\ DeployerCallsMade < MaxCalls
    /\ IF deployerPulled = <<>>
       THEN /\ trace' = Append(trace, Call("run_new_container", FALSE, <<>>))
            /\ UNCHANGED <<remoteContainer, sshVars>>
       ELSE \E connOk \in BOOLEAN, code \in {0, 1} :
              LET x == execute_command(sshConnected, sshClient, connOk)
                  r == run_new_container(deployerPulled, code, remoteContainer)
              IN  /\ sshConnected' = x.connected
                  /\ sshClient' = x.client
                  /\ IF x.raises
                     THEN /\ trace' = Append(trace, Call("raise", FALSE, <<>>))
                          /\ UNCHANGED remoteContainer
                     ELSE /\ remoteContainer' = r.remote
                          /\ trace' = trace \o <<Call("remote.run", r.ok, deployerPulled),
                                                 Call("run_new_container", r.ok, <<>>)>>
    /\ UNCHANGED <<notDeployer, deployerPulled>>

\* no deployer yet, an SSH session not connected, a host with no container of
\* the deployer's name
InitDeployer == ComponentInit("deployer_new", <<>>, FALSE)

NextDeployer ==
    \/ DeployerConstruct
    \/ DeployerSessionDisconnect
    \/ DeployerPull
    \/ DeployerStop
    \/ DeployerRun

SpecDeployer == InitDeployer /\ [][NextDeployer]_vars

-----------------------------------------------------------------------------
(* RemoteDockerDeployer.fetch_logs(max_retries), called directly, one
   "docker logs" read at a time *)

LogReadEvents == Only(trace, {"remote.logs"})

\* the reads made so far, as [out, code]
RECURSIVE ReadsOf(_)
ReadsOf(t) ==
    IF t = <<>> THEN <<>>
    ELSE IF Head(t).ev = "remote.logs"
    THEN <<[out |-> Head(t).arg, code |-> IF Head(t).ok THEN 0 ELSE 1]>> \o ReadsOf(Tail(t))
    ELSE ReadsOf(Tail(t))

\* everything but the SSH session, the reads counted and the calls made
notLogs == <<runs, args, outcome, pushFrames, engineVars, ciVars, pushedImage, cdVars,
             remoteContainer, orchStatus>>

\* the call, up to the first test of the loop "for attempt in range(max_retries)"
FetchLogsCall ==
    /\ pc = "logs_idle"
    /\ \E m \in 0..MaxRetriesArg :
         /\ trace' = <<Call("fetch_logs", TRUE, <<m>>)>>
         /\ pc' = IF 0 < m THEN "fetch_logs" ELSE "fetch_logs_end"
    /\ logCmds' = 0
    /\ UNCHANGED <<notLogs, sshVars>>

\* one turn of the loop: the read, and the notice and the sleep after an empty one
FetchLogsAttempt ==
    /\ pc = "fetch_logs"
    /\ \E connOk \in BOOLEAN, out \in LogOutputs, code \in {0, 1} :
         LET x == execute_command(sshConnected, sshClient, connOk)
             attempt == logCmds + 1
             empty == Strip(out) = <<>>
         IN  /\ sshConnected' = x.connected
             /\ sshClient' = x.client
             /\ IF x.raises
                THEN /\ trace' = Append(trace, Call("fetch_logs.raise", FALSE, <<>>))
                     /\ pc' = "logs_done"
                     /\ UNCHANGED logCmds
                ELSE /\ logCmds' = attempt
                     /\ trace' = trace \o <<Call("remote.logs", code = 0, out)>>
                                  \o (IF empty
                                      THEN <<Call("notice", TRUE, <<>>), Call("sleep", TRUE, <<>>)>>
                                      ELSE <<>>)
                     /\ pc' = IF FetchLogsContinues(attempt, empty, trace[1].arg[1])
                              THEN "fetch_logs" ELSE "fetch_logs_end"
    /\ UNCHANGED notLogs

\* after the loop
FetchLogsEnd ==
    /\ pc = "fetch_logs_end"
    /\ LET r == FetchLogsResult(ReadsOf(trace))
       IN  trace' = Append(trace, IF r.raises THEN Call("fetch_logs.raise", FALSE, <<>>)
                                  ELSE Call("fetch_logs.return", ~r.none, r.out))
    /\ pc' = "logs_done"
    /\ UNCHANGED <<notLogs, sshVars, logCmds>>

\* a deployer of a named container, its SSH session connected
InitLogs == ComponentInit("logs_idle", <<>>, TRUE)

NextLogs ==
    \/ FetchLogsCall
    \/ FetchLogsAttempt
    \/ FetchLogsEnd

SpecLogs == InitLogs /\ [][NextLogs]_vars

-----------------------------------------------------------------------------
(* DockerImageBuilder.__init__(dockerfile_path, image_name, image_tag,
   build_context) *)

\* what the constructor is given and finds: the path names nothing, a
\* directory or a file; image_tag and build_context given or None (<<>>);
\* docker.from_env() makes a client or raises; the engine answers ping() or not
BuilderInputs ==
    [path : {"missing", "dir", "file"}, image_tag : {<<>>, <<"v1">>, <<"v2">>},
     build_context : {<<>>, <<"ctx">>}, envOk : BOOLEAN, engineUp : BOOLEAN]

\* the constructor, statement by statement: the calls it makes, in order, the
\* exception it raises ("none": it returns) and the fields it has set
builder_init(in) ==
    LET env    == <<Call("docker.from_env", in.envOk, <<>>)>>
        ping   == <<Call("engine.ping", in.engineUp, <<>>)>>
        exists == <<Call("os.path.exists", in.path # "missing", <<>>)>>
        isfile == <<Call("os.path.isfile", in.path = "file", <<>>)>>
        unset  == [image_tag |-> <<>>, build_context |-> <<>>]
    IN  IF ~in.envOk
        THEN [raises |-> "DockerException", calls |-> env, fields |-> unset]
        ELSE IF ~in.engineUp
        THEN [raises |-> "ConnectionError", calls |-> env \o ping, fields |-> unset]
        ELSE IF in.path = "missing"
        THEN [raises |-> "FileNotFoundError", calls |-> env \o ping \o exists,
              fields |-> unset]
        ELSE IF in.path # "file"
        THEN [raises |-> "ValueError", calls |-> env \o ping \o exists \o isfile,
              fields |-> unset]
        ELSE [raises |-> "none", calls |-> env \o ping \o exists \o isfile,
              fields |-> [image_tag |-> IF in.image_tag = <<>> THEN <<"timestamp">>
                                        ELSE in.image_tag,
                          build_context |-> IF in.build_context = <<>> THEN <<"dirname">>
                                            ELSE in.build_context]]

BuilderConstruct ==
    /\ pc = "builder_new"
    /\ LET r == builder_init(trace[1].arg)
       IN  trace' = trace \o r.calls
                    \o <<Call("DockerImageBuilder.end", r.raises = "none",
                              [raises |-> r.raises, fields |-> r.fields])>>
    /\ pc' = "builder_done"
    /\ UNCHANGED <<runs, args, outcome, pushFrames, engineVars, ciVars, pushedImage, cdVars,
                   remoteContainer, sshVars, logCmds, orchStatus>>

InitBuilder ==
    \E in \in BuilderInputs :
        ComponentInit("builder_new", <<Call("DockerImageBuilder", TRUE, in)>>, FALSE)

NextBuilder == BuilderConstruct

SpecBuilder == InitBuilder /\ [][NextBuilder]_vars

-----------------------------------------------------------------------------
(* DockerRegistryClient.push_to_registry on its own, for any registry url *)

Registries == DefaultRegistries \cup {<<"ghcr.io">>}

Namespaces == {<<"ns">>, <<"team">>}

\* the image objects handed to push_to_registry: tags[0] is name:tag
PushedImages == {[id |-> 1, tags0 |-> <<"app", ":", "v1">>],
                 [id |-> 1, tags0 |-> <<"web", ":", "v2">>]}

notRegistry == <<runs, args, outcome, containers, ciStatus, ciImage, ciRunner, ciTest,
                 ciRegistry, ciRet, cdVars, remoteContainer, sshVars, logCmds, orchStatus>>

RegistryPush ==
    /\ pc = "registry_idle"
    /\ \E push_latest \in BOOLEAN :
         \E p \in PushBehaviours(push_latest) :
           LET r == push_to_registry_for(trace[1].arg.registry, trace[1].arg.namespace,
                                         imageStore, pushedImage, ciImage, push_latest, p)
           IN  /\ imageStore' = r.store
               /\ pushedImage' = r.pushed
               /\ pushFrames' = r.streams
               /\ trace' = trace \o <<Call("push_to_registry", TRUE, <<>>)>> \o r.log
                            \o <<Call("push_to_registry.return", r.ok, <<>>)>>
    /\ pc' = "registry_done"
    /\ UNCHANGED notRegistry

\* a client for some registry url and namespace, and a built image in the store
InitRegistry ==
    \E registry \in Registries, namespace \in Namespaces, image \in PushedImages :
        /\ pc = "registry_idle"
        /\ trace = <<Call("DockerRegistryClient", TRUE,
                          [registry |-> registry, namespace |-> namespace])>>
        /\ imageStore = {[ref |-> image.tags0, id |-> image.id]}
        /\ ciImage = image
        /\ runs = 0
        /\ args = DefaultArgs
        /\ outcome = "none"
        /\ pushFrames = <<>>
        /\ containers = {}
        /\ ciStatus = TRUE
        /\ ciRunner = NoRunner
        /\ ciTest = FALSE
        /\ ciRegistry = TRUE
        /\ ciRet = "None"
        /\ pushedImage = <<>>
        /\ cdPresent = FALSE
        /\ cdStatus = TRUE
        /\ cdLoopStatus = TRUE
        /\ cdImage = <<>>
        /\ cdRet = "None"
        /\ deployerPulled = <<>>
        /\ remoteContainer = <<>>
        /\ sshConnected = FALSE
        /\ sshClient = "None"
        /\ logCmds = 0
        /\ orchStatus = [CI |-> "None", CD |-> "None"]

NextRegistry == RegistryPush

SpecRegistry == InitRegistry /\ [][NextRegistry]_vars

-----------------------------------------------------------------------------
(* DockerContainerRunner on its own: any sequence of start_container,
   stop_container and remove_container on one runner, while the containers it
   started may exit by themselves *)

RunnerCallEvents == {"start_container", "stop_container", "remove_container"}

RunnerCallsMade == Len(Only(trace, RunnerCallEvents))

\* the status and exit code reload() reads for container `id`: "none" when the
\* runner holds no container, "gone" when the engine no more knows it
StatusRead(cs, id) ==
    IF id = NoContainer THEN [status |-> "none", exit |-> 0]
    ELSE IF ~ContainerExists(cs, id) THEN [status |-> "gone", exit |-> 0]
    ELSE [status |-> ContainerOf(cs, id).status, exit |-> ContainerOf(cs, id).exit]

notRunner == <<pc, runs, args, outcome, pushFrames, imageStore, ciStatus, ciImage, ciTest,
               ciRegistry, ciRet, pushedImage, cdVars, remoteContainer, sshVars, logCmds,
               orchStatus>>

RunnerStart ==
    /\ RunnerCallsMade < MaxCalls
    /\ \E o \in StartOutcomes :
         LET r == start_container(containers, FreshContainerId(containers), o)
         IN  /\ containers' = r.containers
             /\ ciRunner' = r.container
             /\ trace' = Append(trace, Call("start_container", r.ok,
                                            StatusRead(r.containers, r.container)))
    /\ UNCHANGED notRunner

RunnerStop ==
    /\ RunnerCallsMade < MaxCalls
    /\ LET r == stop_container(containers, ciRunner)
       IN  /\ containers' = r.containers
           /\ trace' = trace
                        \o <<Call("stop_container", r.ok, StatusRead(containers, ciRunner))>>
                        \o (IF r.engineStop
                            THEN <<Call("engine.stop", TRUE, StatusRead(containers, ciRunner))>>
                            ELSE <<>>)
    /\ UNCHANGED <<ciRunner, notRunner>>

RunnerRemove ==
    /\ RunnerCallsMade < MaxCalls
    /\ LET r == remove_container(containers, ciRunner)
       IN  /\ containers' = r.containers
           /\ trace' = trace
                        \o <<Call("remove_container", r.ok, StatusRead(containers, ciRunner))>>
                        \o (IF r.engineRemove
                            THEN <<Call("engine.remove", TRUE, StatusRead(containers, ciRunner))>>
                            ELSE <<>>)
    /\ UNCHANGED <<ciRunner, notRunner>>

\* the process of a running container ends, with exit code 0 or 1
ContainerExits ==
    /\ \E c \in containers, code \in {0, 1} :
         /\ c.status = "running"
         /\ containers' = (containers \ {c}) \cup {[c EXCEPT !.status = "exited", !.exit = code]}
    /\ UNCHANGED <<ciRunner, trace, notRunner>>

\* a runner just constructed: __container is None, the engine has no container
InitRunner ==
    /\ pc = "runner"
    /\ trace = <<>>
    /\ containers = {}
    /\ ciRunner = NoContainer
    /\ runs = 0
    /\ args = DefaultArgs
    /\ outcome = "none"
    /\ pushFrames = <<>>
    /\ imageStore = {}
    /\ ciStatus = TRUE
    /\ ciImage = [id |-> NoImage, tags0 |-> <<>>]
    /\ ciTest = FALSE
    /\ ciRegistry = FALSE
    /\ ciRet = "None"
    /\ pushedImage = <<>>
    /\ cdPresent = FALSE
    /\ cdStatus = TRUE
    /\ cdLoopStatus = TRUE
    /\ cdImage = <<>>
    /\ cdRet = "None"
    /\ deployerPulled = <<>>
    /\ remoteContainer = <<>>
    /\ sshConnected = FALSE
    /\ sshClient = "None"
    /\ logCmds = 0
    /\ orchStatus = [CI |-> "None", CD |-> "None"]

NextRunner == RunnerStart \/ RunnerStop \/ RunnerRemove \/ ContainerExits

SpecRunner == InitRunner /\ [][NextRunner]_vars

-----------------------------------------------------------------------------
(* get_file_content(local_path) of pushfiletogitviaapi.py.  A file is the
   sequence of its bytes, a str the sequence of its code points, a Base64
   text the sequence of the indices (0..63) of its letters in the Base64
   alphabet, with Base64Pad for "=" *)

LF == 10
CR == 13

\* the characters of the text files read: "a", the two line-end characters, "é"
FileChars == {97, LF, CR, 233}

\* str.encode(): UTF-8, one byte below 128 and two bytes below 2048
RECURSIVE Utf8Encode(_)
Utf8Encode(text) ==
    IF text = <<>> THEN <<>>
    ELSE (IF Head(text) < 128 THEN <<Head(text)>>
          ELSE <<192 + (Head(text) \div 64), 128 + (Head(text) % 64)>>)
         \o Utf8Encode(Tail(text))

\* the decoding done by a file opened in text mode (UTF-8), on well-formed input
RECURSIVE Utf8Decode(_)
Utf8Decode(bytes) ==
    IF bytes = <<>> THEN <<>>
    ELSE IF Head(bytes) < 128 THEN <<Head(bytes)>> \o Utf8Decode(Tail(bytes))
    ELSE <<(Head(bytes) - 192) * 64 + (bytes[2] - 128)>>
         \o Utf8Decode(SubSeq(bytes, 3, Len(bytes)))

\* open(path, "r") reads with newline=None: "\r\n" and "\r" are given as "\n"
RECURSIVE UniversalNewlines(_)
UniversalNewlines(text) ==
    IF text = <<>> THEN <<>>
    ELSE IF Head(text) = CR /\ Len(text) >= 2 /\ text[2] = LF
    THEN <<LF>> \o UniversalNewlines(SubSeq(text, 3, Len(text)))
    ELSE IF Head(text) = CR THEN <<LF>> \o UniversalNewlines(Tail(text))
    ELSE <<Head(text)>> \o UniversalNewlines(Tail(text))

Base64Pad == 64

\* base64.b64encode: three bytes give four letters; one or two bytes left over
\* give two or three letters and padding
RECURSIVE b64encode(_)
b64encode(bytes) ==
    IF bytes = <<>> THEN <<>>
    ELSE IF Len(bytes) = 1
    THEN <<bytes[1] \div 4, (bytes[1] % 4) * 16, Base64Pad, Base64Pad>>
    ELSE IF Len(bytes) = 2
    THEN <<bytes[1] \div 4, (bytes[1] % 4) * 16 + (bytes[2] \div 16),
           (bytes[2] % 16) * 4, Base64Pad>>
    ELSE <<bytes[1] \div 4, (bytes[1] % 4) * 16 + (bytes[2] \div 16),
           (bytes[2] % 16) * 4 + (bytes[3] \div 64), bytes[3] % 64>>
         \o b64encode(SubSeq(bytes, 4, Len(bytes)))

\* base64.b64decode of a well-formed Base64 text
RECURSIVE b64decode(_)
b64decode(letters) ==
    IF letters = <<>> THEN <<>>
    ELSE LET b1 == letters[1] * 4 + (letters[2] \div 16)
             b2 == (letters[2] % 16) * 16 + (letters[3] \div 4)
             b3 == (letters[3] % 4) * 64 + letters[4]
         IN  (IF letters[3] = Base64Pad THEN <<b1>>
              ELSE IF letters[4] = Base64Pad THEN <<b1, b2>>
              ELSE <<b1, b2, b3>>)
             \o b64decode(SubSeq(letters, 5, Len(letters)))

\* get_file_content: None when the path does not exist, else the Base64 text of
\* the UTF-8 bytes of what the text-mode read gives
get_file_content(exists, bytes) ==
    IF ~exists THEN [none |-> TRUE, encoded |-> <<>>]
    ELSE [none |-> FALSE,
          encoded |-> b64encode(Utf8Encode(UniversalNewlines(Utf8Decode(bytes))))]

GetFileContent ==
    /\ pc = "file_idle"
    /\ LET r == get_file_content(trace[1].ok, trace[1].arg)
       IN  trace' = Append(trace, Call("get_file_content", ~r.none, r.encoded))
    /\ pc' = "file_done"
    /\ UNCHANGED <<runs, args, outcome, pushFrames, engineVars, ciVars, pushedImage, cdVars,
                   remoteContainer, sshVars, logCmds, orchStatus>>

\* a path that names nothing, or a text file of up to MaxFileLen characters
InitFile ==
    \/ ComponentInit("file_idle", <<Call("file", FALSE, <<>>)>>, FALSE)
    \/ \E n \in 0..MaxFileLen : \E text \in [1..n -> FileChars] :
          ComponentInit("file_idle", <<Call("file", TRUE, Utf8Encode(text))>>, FALSE)

NextFile == GetFileContent

SpecFile == InitFile /\ [][NextFile]_vars

-----------------------------------------------------------------------------
(* Properties *)

Returned(t, ev) == \E i \in 1..Len(t) : t[i].ev = ev

\* the step-level calls of CIPipeLine.execute(), without the engine calls under them
CIStepEvents ==
    CIStageEvents \cup {"stop_step", "remove_step", "mark_failed_build",
                        "ci.cleanup_local_image", "ci.return"}

CISteps == Only(trace, CIStepEvents)

CIStagesRun == Only(trace, CIStageEvents)

CDStagesRun == Only(trace, CDStageEvents)

CDPcs == {"cd_pull", "cd_stop", "cd_run", "cd_logs", "cd_cleanup", "cd_finish",
          "orch_after_cd"}

\* C1: in every CIPipeLine.execute(), whichever stage failed or none, stop_step
\* and then remove_step are each called exactly once, after the last stage that
\* ran and before execute() returns.
C1_CleanupExactlyOnce ==
    /\ Count(trace, "stop_step") <= 1
    /\ Count(trace, "remove_step") <= 1
    /\ Returned(trace, "ci.return") =>
         LET n == Len(CIStagesRun)
         IN  /\ Count(trace, "stop_step") = 1
             /\ Count(trace, "remove_step") = 1
             /\ Len(CISteps) = n + 4
             /\ \A i \in 1..n : CISteps[i].ev \in CIStageEvents
             /\ CISteps[n + 1].ev = "stop_step"
             /\ CISteps[n + 2].ev = "remove_step"
             /\ CISteps[n + 4].ev = "ci.return"

\* a run that failed at the Test step, with the container still running, has
\* returned after stopping and removing it
C1_Witness ==
    /\ pc = "orch_after_ci"
    /\ Returned(trace, "ci.return")
    /\ \E i \in 1..Len(trace) : trace[i].ev = "Test" /\ ~trace[i].ok
    /\ Returned(trace, "engine.stop")
    /\ Returned(trace, "engine.remove")

\* C2: once the CI pipeline's execute() has returned False in an
\* Orchestrator.execute(), no CD stage function and no CDPipeline.execute() is
\* called in that orchestrator run.
C2_NoCDAfterCIFailure ==
    ciRet = "False" =>
        /\ pc \notin CDPcs
        /\ \A i \in 1..Len(trace) : trace[i].ev \notin CDEvents

\* the CI pipeline has returned False to an orchestrator asked to run the CD too
C2_Witness ==
    /\ pc = "orch_after_ci"
    /\ ciRet = "False"
    /\ args.run_cd
    /\ cdPresent

\* C3 (as claimed): when the CI pipeline fails under Orchestrator.execute(), the
\* status returned records CD as "Skipped" and CI as failed.
C3_CDSkippedRecorded ==
    (pc = "idle" /\ outcome = "returned" /\ ciRet = "False") =>
        (orchStatus.CI = "False" /\ orchStatus.CD = "Skipped")

\* C4: CIPipeLine.execute() runs Build, Run, Test, Push in that order, a stage
\* only after every earlier one returned success; the first failure keeps all
\* later stages from running and makes execute() return False.
C4_StagesInOrderHaltOnFailure ==
    LET st == CIStagesRun
    IN  /\ Len(st) <= Len(CIStages)
        /\ \A i \in 1..Len(st) :
             /\ st[i].ev = CIStages[i]
             /\ \A j \in 1..(i-1) : st[j].ok
        /\ Returned(trace, "ci.return") =>
             /\ (\E i \in 1..Len(st) : ~st[i].ok) => ciRet = "False"
             /\ (\A i \in 1..Len(st) : st[i].ok) => Len(st) = Len(CIStages)

\* the image existed: Build returned False, nothing else ran, execute() returned False
C4_Witness ==
    /\ pc = "orch_after_ci"
    /\ CIStagesRun = <<Call("Build", FALSE, <<>>)>>
    /\ ~Returned(trace, "engine.build")
    /\ ciRet = "False"

\* C5: when name:tag resolves in the local store, the build step fails without
\* calling the engine's build (and leaves the store as it is).
C5_NoEngineBuildWhenImageExists ==
    [][(pc = "ci_build" /\ Resolve(imageStore, NameWithTag) # NoImage) =>
          /\ Count(trace', "engine.build") = Count(trace, "engine.build")
          /\ trace' = Append(trace, Call("Build", FALSE, <<>>))
          /\ imageStore' = imageStore]_vars

\* the build step has just refused an image that exists
C5_Witness ==
    /\ pc = "ci_stop"
    /\ CIStagesRun = <<Call("Build", FALSE, <<>>)>>
    /\ ~Returned(trace, "engine.build")
    /\ Resolve(imageStore, NameWithTag) # NoImage

\* C6 (as claimed), for a run that built its image and then ended Failed (at
\* Run, Test or Push): when execute() has returned, the local store holds
\* name:tag-failed and no longer holds name:tag.
C6_FailedRunRenamesImage ==
    (/\ pc = "orch_after_ci"
     /\ ciRet = "False"
     /\ Call("Build", TRUE, <<>>) \in {trace[i] : i \in 1..Len(trace)}) =>
        /\ Resolve(imageStore, FailedNameWithTag) # NoImage
        /\ Resolve(imageStore, NameWithTag) = NoImage

\* C7 (as claimed): when Build, Run, Test and Push all succeed, execute()
\* returns True, the image built is no longer in the local store and there is
\* no name:tag-failed.
C7_SuccessRemovesImage ==
    (/\ pc = "orch_after_ci"
     /\ Len(CIStagesRun) = Len(CIStages)
     /\ \A i \in 1..Len(CIStagesRun) : CIStagesRun[i].ok) =>
        /\ ciRet = "True"
        /\ ~ImagePresent(imageStore, ciImage.id)
        /\ Resolve(imageStore, FailedNameWithTag) = NoImage

\* C8: a frame with an error key, at any position of a push response stream,
\* makes the Push step return False; a Push step that returned False makes the
\* run end Failed with the image built tagged name:tag-failed.
C8_ErrorFrameFailsRun ==
    /\ (\E k \in 1..Len(pushFrames) : HasErrorFrame(pushFrames[k])) =>
         /\ trace[Len(trace)] = Call("Push", FALSE, <<>>)
         /\ ~ciStatus
    /\ (Returned(trace, "ci.return") /\ Call("Push", FALSE, <<>>) \in {trace[i] : i \in 1..Len(trace)}) =>
         /\ ciRet = "False"
         /\ ciImage.id # NoImage
         /\ Resolve(imageStore, FailedNameWithTag) = ciImage.id

\* a push answered with an error frame after a frame without one
C8_WitnessFrame ==
    /\ pc = "ci_stop"
    /\ \E k \in 1..Len(pushFrames) :
         /\ Len(pushFrames[k]) >= 2
         /\ pushFrames[k][1] = "status"
         /\ pushFrames[k][2] = "error"

\* C9: in every CDPipeline.execute() that returns, logs_step has been called
\* exactly once, after the last of Pull/Stop/Run, and the value returned is the
\* status the Pull/Stop/Run loop left, whatever logs_step returned.
C9_LogsOnceAndNeutral ==
    /\ Count(trace, "cd.logs_step") <= 1
    /\ Returned(trace, "cd.return") =>
         /\ Count(trace, "cd.logs_step") = 1
         /\ FirstPos(trace, "cd.logs_step") > LastPos(trace, CDStageEvents)
         /\ FirstPos(trace, "cd.logs_step") < FirstPos(trace, "cd.return")
         /\ cdRet = PyStr(cdLoopStatus)
         /\ (\E i \in 1..Len(CDStagesRun) : ~CDStagesRun[i].ok) => cdRet = "False"

\* a CD run whose logs step returned False has returned True
C9_Witness ==
    /\ pc = "orch_after_cd"
    /\ Call("cd.logs_step", FALSE, <<>>) \in {trace[i] : i \in 1..Len(trace)}
    /\ cdRet = "True"

CDStages == <<"cd.pull_step", "cd.stop_step", "cd.run_step">>

\* C10: CDPipeline.execute() runs Pull, Stop, Run in that order, a stage only
\* after every earlier one returned success; the first failure makes execute()
\* return False; nothing removes the container once the Run stage started it.
C10_CDStagesHaltNoRollback ==
    LET st == CDStagesRun
    IN  /\ Len(st) <= Len(CDStages)
        /\ \A i \in 1..Len(st) :
             /\ st[i].ev = CDStages[i]
             /\ \A j \in 1..(i-1) : st[j].ok
        /\ Returned(trace, "cd.return") =>
             /\ (\E i \in 1..Len(st) : ~st[i].ok) => cdRet = "False"
             /\ (\A i \in 1..Len(st) : st[i].ok) => Len(st) = Len(CDStages)
        /\ (\E i \in 1..Len(trace) : trace[i].ev = "remote.run" /\ trace[i].ok) =>
             /\ LastPos(trace, {"remote.rm"}) < FirstPos(trace, "remote.run")
             /\ remoteContainer = deployerPulled
             /\ remoteContainer # <<>>

\* a CD run halted by a failed Pull: Stop and Run were not called
C10_WitnessHalt ==
    /\ pc = "orch_after_cd"
    /\ CDStagesRun = <<Call("cd.pull_step", FALSE, <<>>)>>
    /\ cdRet = "False"
    /\ remoteContainer = <<"old-image">>

-----------------------------------------------------------------------------
(* Properties of SSHClientManager (SpecSSH) *)

\* the call at position i of the trace, when there is one
EventAt(i, ev) == i <= Len(trace) /\ trace[i].ev = ev

\* C11: execute_command(cmd) on a session that is not connected makes exactly
\* one connect(), before the command is run; on a connected session it makes none.
C11_AutoConnectOnce ==
    \A i \in 1..Len(trace) :
        trace[i].ev = "call.execute_command" =>
            IF trace[i].arg = <<"not connected">>
            THEN /\ EventAt(i + 1, "connect")
                 /\ EventAt(i + 2, "exec_command")
                 /\ ~EventAt(i + 3, "connect")
            ELSE /\ EventAt(i + 1, "exec_command")
                 /\ ~EventAt(i + 2, "connect")

\* execute_command on a session that was never connected has connected and run
\* the command; a second execute_command has run without connecting
C11_Witness ==
    /\ Len(trace) >= 5
    /\ trace[1] = Call("call.execute_command", TRUE, <<"not connected">>)
    /\ trace[2] = Call("connect", TRUE, <<"opened">>)
    /\ trace[3] = Call("exec_command", TRUE, <<>>)
    /\ trace[4] = Call("call.execute_command", TRUE, <<"connected">>)
    /\ trace[5] = Call("exec_command", TRUE, <<>>)

\* C12: once a connect() has succeeded, every further connect(), called
\* directly or by execute_command, returns True without opening a transport,
\* until disconnect() is called: at most one transport is established.
C12_ConnectIdempotent ==
    \A i \in 1..Len(trace) : \A j \in (i+1)..Len(trace) :
        (/\ trace[i].ev = "connect" /\ trace[i].ok
         /\ trace[j].ev = "connect"
         /\ \A k \in i..j : trace[k].ev # "call.disconnect") =>
            (trace[j].ok /\ trace[j].arg = <<>>)

\* a connect() that opened the transport is followed by a connect() that
\* returned True and opened nothing
C12_Witness ==
    /\ Len(trace) >= 4
    /\ trace[2] = Call("connect", TRUE, <<"opened">>)
    /\ trace[3] = Call("call.connect", TRUE, <<>>)
    /\ trace[4] = Call("connect", TRUE, <<>>)
    /\ sshConnected

\* C13: after disconnect(), on a connected session, one never connected or one
\* whose connect failed, and however many times it is called, the session is
\* disconnected and holds no client; an execute_command() that follows
\* connects before it runs its command.
C13_DisconnectSafe ==
    /\ (trace # <<>> /\ trace[Len(trace)].ev \in {"call.disconnect", "close"}) =>
         (~sshConnected /\ sshClient = "None")
    /\ \A i \in 1..Len(trace) :
         (/\ trace[i].ev = "call.execute_command"
          /\ i > 1
          /\ trace[i-1].ev \in {"call.disconnect", "close"}) =>
            (trace[i].arg = <<"not connected">> /\ EventAt(i + 1, "connect"))

\* disconnect() after a failed connect, disconnect() again, then an
\* execute_command() that reconnected and ran
C13_Witness ==
    /\ Len(trace) >= 8
    /\ trace[2] = Call("connect", FALSE, <<>>)
    /\ trace[3].ev = "call.disconnect"
    /\ trace[4].ev = "close"
    /\ trace[5].ev = "call.disconnect"
    /\ trace[6].ev = "call.execute_command"
    /\ trace[7] = Call("connect", TRUE, <<"opened">>)
    /\ trace[8] = Call("exec_command", TRUE, <<>>)

-----------------------------------------------------------------------------
(* Properties of RemoteDockerDeployer (SpecDeployer) *)

\* C14: every stop_existing_container() whose remote command ran on a host
\* with no container of the target name returns True, whatever "docker rm -f"
\* itself exits with, on the first call and on every repeated one, and the
\* host still has no such container.
C14_StopAbsentIsSuccess ==
    /\ \A i \in 1..Len(trace) :
         (trace[i].ev = "remote.rm" /\ trace[i].arg = <<>>) =>
            (i < Len(trace) /\ trace[i + 1] = Call("stop_existing_container", TRUE, <<>>))
    /\ (trace # <<>> /\ trace[Len(trace)].ev = "stop_existing_container"
          /\ trace[Len(trace)].ok) => remoteContainer = <<>>

\* two calls in a row on a host without the container, "docker rm -f" exiting 1
\* both times, have both returned True
C14_Witness ==
    /\ Len(trace) >= 4
    /\ \E i \in 1..(Len(trace) - 3) :
         /\ trace[i] = Call("remote.rm", FALSE, <<>>)
         /\ trace[i + 1] = Call("stop_existing_container", TRUE, <<>>)
         /\ trace[i + 2] = Call("remote.rm", FALSE, <<>>)
         /\ trace[i + 3] = Call("stop_existing_container", TRUE, <<>>)

\* the remote commands of the trace
RemoteCommandEvents == {"remote.login", "remote.pull", "remote.rm", "remote.run"}

\* C23: constructing a RemoteDockerDeployer performs the remote registry login
\* as its first remote command and raises when that login fails or the
\* credentials are missing: a deployer exists, and a remote pull, stop or run
\* is issued through one, only after a successful remote login.
C23_NoDeployerWithoutLogin ==
    LET cmds == Only(trace, RemoteCommandEvents)
    IN  /\ pc = "deployer" => (cmds # <<>> /\ cmds[1] = Call("remote.login", TRUE, <<>>))
        /\ \A i \in 1..Len(cmds) :
             cmds[i].ev # "remote.login" =>
                 (cmds[1] = Call("remote.login", TRUE, <<>>) /\ i > 1)
        /\ \A i \in 1..Len(trace) :
             (trace[i].ev = "RemoteDockerDeployer" /\ ~trace[i].ok) =>
                 (pc = "deployer_failed" /\ i = Len(trace))

\* the constructor has raised after a failed remote login
C23_WitnessLoginFailed ==
    /\ pc = "deployer_failed"
    /\ trace = <<Call("remote.login", FALSE, <<>>), Call("RemoteDockerDeployer", FALSE, <<>>)>>

-----------------------------------------------------------------------------
(* Properties of fetch_logs (SpecLogs) *)

\* fetch_logs has returned (ok: a value other than None) or raised
FetchLogsEnded == trace # <<>> /\ trace[Len(trace)].ev \in {"fetch_logs.return", "fetch_logs.raise"}

\* the first k-1 reads were empty and read k was not
BrokeAtRead(k) ==
    /\ Len(LogReadEvents) >= k
    /\ \A i \in 1..(k-1) : Strip(LogReadEvents[i].arg) = <<>>
    /\ Strip(LogReadEvents[k].arg) # <<>>

C16_NeverRaisesReturnsLastRead ==
    /\ Count(trace, "notice") <= (IF trace = <<>> THEN 0 ELSE trace[1].arg[1])
    /\ FetchLogsEnded =>
         /\ trace[Len(trace)].ev = "fetch_logs.return"
         /\ LogReadEvents # <<>> =>
              /\ trace[Len(trace)].ok
              /\ trace[Len(trace)].arg = LogReadEvents[Len(LogReadEvents)].arg

-----------------------------------------------------------------------------
(* Properties of DockerImageBuilder.__init__ (SpecBuilder) *)

\* C17 (as claimed): when the Dockerfile path does not exist, the constructor
\* raises before any call to the container engine, reachable or not.
C17_MissingDockerfileRaisesFirst ==
    (pc = "builder_done" /\ trace[1].arg.path = "missing") =>
        /\ ~trace[Len(trace)].ok
        /\ \A i \in 1..Len(trace) : trace[i].ev # "engine.ping"

-----------------------------------------------------------------------------
(* Exceptions across stage boundaries (Spec) *)

\* C18 (as claimed): whatever the engine and the remote shell do, every CI and
\* CD stage function returns a boolean instead of raising, so no
\* Orchestrator.execute() run ends with an exception.
C18_NoStageRaises ==
    outcome # "raised"

-----------------------------------------------------------------------------
(* Properties of DockerRegistryClient.push_to_registry (SpecRegistry) *)

\* C19 (as claimed): for every registry url, namespace, name and tag, each
\* reference push_to_registry pushes is the reference it has just applied to
\* the image as a tag, {registry}/{namespace}/{name}:{tag} with the registry
\* segment left out only for the default public registry.
C19_PushesWhatItTagged ==
    \A i \in 2..Len(trace) :
        trace[i].ev = "engine.push" =>
            /\ trace[i-1].ev = "engine.tag"
            /\ trace[i-1].arg = trace[i].arg
            /\ \E tag \in {tag_extractor(ciImage), <<"latest">>} :
                 trace[i].arg =
                     (IF trace[1].arg.registry \in DefaultRegistries THEN <<>>
                      ELSE trace[1].arg.registry \o <<"/">>)
                     \o trace[1].arg.namespace \o <<"/">> \o name_extractor(ciImage)
                     \o <<":">> \o tag

-----------------------------------------------------------------------------
(* The latest alias (Spec) *)

\* C20 (as claimed): in a run with CI enabled and a registry client set, once
\* the versioned push has succeeded the Push step performs the tag+push cycle
\* for tag latest if and only if the push_latest option of
\* Orchestrator.execute() is true, whatever the other options.
C20_LatestIffPushLatest ==
    [][(pc = "ci_push" /\ ciRegistry
        /\ Len(pushFrames') >= 1 /\ PushLoop(pushFrames'[1]))
       => LET latest == TagTarget(Namespace, name_extractor(ciImage), <<"latest">>)
              cycle  == \E i \in (Len(trace) + 1)..Len(trace') :
                            /\ trace'[i].ev = "engine.tag"
                            /\ trace'[i].arg = latest
          IN  cycle <=> args.push_latest]_vars

-----------------------------------------------------------------------------
(* Properties of DockerContainerRunner (SpecRunner) *)

\* C21: start_container classifies the container by the state re-read after
\* the settle delay: exited with exit code 0 is a success, exited with another
\* exit code a failure, any state other than exited (still running) a success.
C21_StartClassifiesByStatus ==
    \A i \in 1..Len(trace) :
        (trace[i].ev = "start_container" /\ trace[i].arg.status # "none") =>
            /\ (trace[i].arg.status = "exited" /\ trace[i].arg.exit = 0) => trace[i].ok
            /\ (trace[i].arg.status = "exited" /\ trace[i].arg.exit # 0) => ~trace[i].ok
            /\ trace[i].arg.status # "exited" => trace[i].ok

\* the three classes have been met on one runner: exited 0, exited 1, running
C21_Witness ==
    /\ \E i \in 1..Len(trace) : /\ trace[i].ev = "start_container"
                                /\ trace[i].arg = [status |-> "exited", exit |-> 0]
                                /\ trace[i].ok
    /\ \E i \in 1..Len(trace) : /\ trace[i].ev = "start_container"
                                /\ trace[i].arg = [status |-> "exited", exit |-> 1]
                                /\ ~trace[i].ok
    /\ \E i \in 1..Len(trace) : /\ trace[i].ev = "start_container"
                                /\ trace[i].arg = [status |-> "running", exit |-> 0]
                                /\ trace[i].ok

\* the engine call `ev` follows the runner call at position i of the trace
EngineCallAfter(i, ev) == i < Len(trace) /\ trace[i+1].ev = ev

\* C22: across any sequence of start/stop/remove calls on a runner, the engine's
\* remove is issued only when the status just re-read is exited (a running
\* container is not removed and remove returns False), and the engine's stop
\* only when it is running (stop on a stopped container is a no-op returning True).
C22_StopRemoveGuardedByStatus ==
    \A i \in 1..Len(trace) :
        /\ trace[i].ev = "engine.remove" => trace[i].arg.status = "exited"
        /\ trace[i].ev = "engine.stop" => trace[i].arg.status = "running"
        /\ (trace[i].ev = "remove_container" /\ trace[i].arg.status = "running") =>
              ~trace[i].ok /\ ~EngineCallAfter(i, "engine.remove")
        /\ (trace[i].ev = "stop_container" /\ trace[i].arg.status = "exited") =>
              trace[i].ok /\ ~EngineCallAfter(i, "engine.stop")

\* one runner on which remove was refused on a running container, stop and
\* remove were issued to the engine, and stop was a no-op on a stopped container
C22_Witness ==
    /\ \E i \in 1..Len(trace) : /\ trace[i].ev = "remove_container"
                                /\ trace[i].arg.status = "running"
                                /\ ~trace[i].ok
    /\ \E i \in 1..Len(trace) : /\ trace[i].ev = "stop_container"
                                /\ trace[i].arg.status = "exited"
                                /\ trace[i].ok
    /\ \E i \in 1..Len(trace) : trace[i].ev = "engine.stop"
    /\ \E i \in 1..Len(trace) : trace[i].ev = "engine.remove"

-----------------------------------------------------------------------------
(* Properties of get_file_content (SpecFile) *)

\* C24 (as claimed): for every existing text file get_file_content returns the
\* Base64 encoding of the file's content, so that decoding the result gives
\* the content back; for a path that does not exist it returns None.
C24_Base64OfFileContent ==
    pc = "file_done" =>
        IF trace[1].ok
        THEN /\ trace[2].ok
             /\ trace[2].arg = b64encode(trace[1].arg)
             /\ b64decode(trace[2].arg) = trace[1].arg
        ELSE ~trace[2].ok

-----------------------------------------------------------------------------
(* Repeated execute() calls on one pipeline (Spec) *)

\* C25 (as claimed): the outcome of a pipeline run depends on that invocation
\* only: each execute() of a CIPipeLine, or of a CDPipeline, returns True if and
\* only if every stage run in that call returned success, however earlier
\* calls on the same instance ended.
C25_OutcomeOfThisRunOnly ==
    /\ Returned(trace, "ci.return") =>
          (ciRet = "True" <=> \A i \in 1..Len(CIStagesRun) : CIStagesRun[i].ok)
    /\ Returned(trace, "cd.return") =>
          (cdRet = "True" <=> \A i \in 1..Len(CDStagesRun) : CDStagesRun[i].ok)

-----------------------------------------------------------------------------
(* Containers left by the CI pipeline (Spec) *)

\* C26 (as claimed): after CIPipeLine.execute() returns, every container that
\* the Run stage created on the local engine has been destroyed: none is left
\* in created, running or exited state, whichever stage the run halted at.
C26_NoContainerLeftBehind ==
    Returned(trace, "ci.return") => containers = {}

-----------------------------------------------------------------------------
(* Redeployment order (Spec) *)

\* C27 (as claimed): in any CDPipeline.execute(), the remote force-removal of
\* the existing target container is issued only after a remote pull of the
\* image to deploy has succeeded in that run; a run with no image to deploy, or
\* whose pull failed, issues none.
C27_RemoveOnlyAfterPull ==
    \A i \in 1..Len(trace) :
        trace[i].ev = "remote.rm" =>
            \E j \in 1..(i - 1) : trace[j].ev = "remote.pull" /\ trace[j].ok

-----------------------------------------------------------------------------
(* The reference deployed (Spec) *)

\* the versioned reference of the image the CI pipeline builds
VersionedReference == TagTarget(Namespace, ImageName, ImageTag)

\* C28: a CDPipeline built without an image but with the registry client used
\* by CI pulls on the remote host exactly the versioned reference recorded by
\* the registry client's last successful versioned push, never the latest
\* alias, and Run starts the container from that same reference.
C28_DeploysPushedVersion ==
    /\ \A i \in 1..Len(trace) :
         trace[i].ev \in {"remote.pull", "remote.run"} =>
            /\ trace[i].arg = pushedImage
            /\ trace[i].arg = VersionedReference
    /\ (ciRegistry /\ pushedImage # <<>> /\ Returned(trace, "cd.pull_step")) =>
           Returned(trace, "remote.pull")
    /\ pushedImage \in {<<>>, VersionedReference}

\* after a CI run that pushed the version and the latest alias, the CD run has
\* pulled the versioned reference and started the container from it
C28_Witness ==
    /\ Resolve(imageStore, TagTarget(Namespace, ImageName, <<"latest">>)) # NoImage
    /\ \E i \in 1..Len(trace) : trace[i] = Call("remote.pull", TRUE, VersionedReference)
    /\ \E i \in 1..Len(trace) : trace[i] = Call("remote.run", TRUE, VersionedReference)
    /\ remoteContainer = VersionedReference

-----------------------------------------------------------------------------
(* The test hook across runs (Spec) *)

\* C29 (as claimed): skipping tests is a per-call toggle: an
\* Orchestrator.execute() call, with skip_tests or without, leaves the test
\* hook configured on the CI pipeline unchanged, so that a later
\* execute(skip_tests=False) runs the hook again.
C29_SkipTestsKeepsHook ==
    [][(pc = "idle" /\ pc' = "ci_build") => ciTest' = ciTest]_vars

-----------------------------------------------------------------------------
(* The -failed label and images of earlier builds (Spec) *)

\* the Build stage of this run rejected the build: name:tag existed already
BuildRejectedThisRun ==
    /\ CIStagesRun = <<Call("Build", FALSE, <<>>)>>
    /\ ~Returned(trace, "engine.build")

\* C30 (as claimed): the -failed label is applied only to an image built by the
\* current run: when the Build stage rejects the run because name:tag exists
\* already, the end of execute() leaves the references of the pre-existing
\* image as they were (no name:tag-failed is added, name:tag still names it).
C30_RejectedBuildKeepsTags ==
    [][(pc = "ci_finish" /\ BuildRejectedThisRun) => imageStore' = imageStore]_vars

====
